---- MODULE Spec2Model ----
(***************************************************************************)
(* Transaction reconciliation of TarjetaEroskiTelegramBot:                 *)
(*   process_bank_excel.py  fingerprint, ledger store, near-duplicate      *)
(*                          matcher, process_excel_file (reconcile)        *)
(*   api_server.py          handle_confirm_transaction (resolver)          *)
(* Text is a sequence of one-character strings, a date is a day number,    *)
(* an amount is an integer number of thousandths (raw) or cents (stored).  *)
(***************************************************************************)
EXTENDS Integers, Sequences, FiniteSets, Bags, TLC

\* ------------------------------------------------------------ bounds
\* longest uploaded sheet, in rows (before cleaning)
MaxBatch == 2

\* ------------------------------------------------- program constants
SIMILARITY_THRESHOLD_PCT == 60
DATE_WINDOW_DAYS == 3
amount_margin == 1
QUERY_LIMIT == 10

\* ------------------------------------------------------------ values
NaN == [k |-> "nan"]
NaT == [k |-> "nat"]
Day(d) == [k |-> "day", d |-> d]
NoId == [k |-> "none"]
NoMatch == [k |-> "nomatch"]
NoQuery == [k |-> "none"]
SinDescripcion == <<"S", "D">>

Ts(d) == [k |-> "ts", d |-> d]
DateStr(dayfirst, monthfirst) == [k |-> "str", df |-> dayfirst, mf |-> monthfirst]
BadDate == [k |-> "bad"]
Num(v) == [k |-> "num", v |-> v]
BadAmount == [k |-> "bad"]

\* ------------------------------------------------------ text helpers
\* str.lower() on the model's alphabet
LowerChar(c) ==
    CASE c = "A" -> "a"
      [] c = "B" -> "b"
      [] c = "C" -> "c"
      [] OTHER -> c

StrLower(s) == [i \in 1..Len(s) |-> LowerChar(s[i])]

RECURSIVE LStrip(_)
LStrip(s) == IF s # <<>> /\ Head(s) = " " THEN LStrip(Tail(s)) ELSE s

RECURSIVE RStrip(_)
RStrip(s) ==
    IF s # <<>> /\ s[Len(s)] = " " THEN RStrip(SubSeq(s, 1, Len(s) - 1)) ELSE s

\* str.strip()
StrStrip(s) == RStrip(LStrip(s))

RECURSIVE FirstWord(_)
FirstWord(s) ==
    IF s = <<>> \/ Head(s) = " " THEN <<>> ELSE <<Head(s)>> \o FirstWord(Tail(s))

\* ' '.join(s.split())
RECURSIVE JoinSplit(_)
JoinSplit(s) ==
    LET t == LStrip(s)
        w == FirstWord(t)
        rest == JoinSplit(SubSeq(t, Len(w) + 1, Len(t)))
    IN  IF t = <<>> THEN <<>>
        ELSE IF rest = <<>> THEN w ELSE w \o <<" ">> \o rest

\* ------------------------------------------- difflib.SequenceMatcher
RECURSIVE RunLen(_, _, _, _, _, _)
RunLen(a, b, i, j, ahi, bhi) ==
    IF i > ahi \/ j > bhi THEN 0
    ELSE IF a[i] # b[j] THEN 0
    ELSE 1 + RunLen(a, b, i + 1, j + 1, ahi, bhi)

\* find_longest_match: the longest block, earliest in a, then earliest in b
LongestMatch(a, b, alo, ahi, blo, bhi) ==
    LET P == (alo..ahi) \X (blo..bhi)
        L(p) == RunLen(a, b, p[1], p[2], ahi, bhi)
        best == CHOOSE p \in P :
                    \A q \in P :
                        \/ L(p) > L(q)
                        \/ L(p) = L(q) /\ p[1] < q[1]
                        \/ L(p) = L(q) /\ p[1] = q[1] /\ p[2] <= q[2]
    IN  [i |-> best[1], j |-> best[2], k |-> L(best)]

\* get_matching_blocks: total size of the matching blocks
RECURSIVE MatchCount(_, _, _, _, _, _)
MatchCount(a, b, alo, ahi, blo, bhi) ==
    IF alo > ahi \/ blo > bhi THEN 0
    ELSE LET m == LongestMatch(a, b, alo, ahi, blo, bhi)
         IN  IF m.k = 0 THEN 0
             ELSE m.k + MatchCount(a, b, alo, m.i - 1, blo, m.j - 1)
                      + MatchCount(a, b, m.i + m.k, ahi, m.j + m.k, bhi)

\* ratio() = 2.0*M/T, 1.0 when both are empty; kept as the fraction num/den
Ratio(a, b) ==
    IF Len(a) + Len(b) = 0 THEN [num |-> 1, den |-> 1]
    ELSE [num |-> 2 * MatchCount(a, b, 1, Len(a), 1, Len(b)),
          den |-> Len(a) + Len(b)]

RatioGE(x, y) == x.num * y.den >= y.num * x.den
RatioGT(x, y) == x.num * y.den > y.num * x.den
\* a threshold that a 90%-similar description does not reach
ThresholdAbove90 == [num |-> 95, den |-> 100]
Threshold == [num |-> SIMILARITY_THRESHOLD_PCT, den |-> 100]
ZeroRatio == [num |-> 0, den |-> 1]

\* ------------------------------------------------------ spreadsheet rows
\* pd.to_datetime(value, errors='coerce', dayfirst=...)
ToDatetime(raw, dayfirst) ==
    CASE raw.k = "ts" -> Day(raw.d)
      [] raw.k = "str" -> IF dayfirst THEN Day(raw.df) ELSE Day(raw.mf)
      [] OTHER -> NaT

\* float(value)
IsFloat(raw) == raw.k = "num"

\* round(x, 2) and f"{x:.2f}": thousandths to cents
RoundCents(v) == (v + 5) \div 10

Row(date, desc, amount) == [date |-> date, desc |-> desc, amount |-> amount]

RowA == Row(Ts(5), <<"A", " ", "b">>, Num(1000))
RowB == Row(Ts(6), <<"a", " ", " ", "b">>, Num(1004))
RowBadAmount == Row(Ts(5), <<"c", "d">>, BadAmount)
RowBadDate == Row(BadDate, <<"c", "d">>, Num(2500))
RowBlank == Row(NaN, <<"c", "d">>, Num(2500))

Rows == {RowA, RowB, RowBadAmount, RowBadDate, RowBlank}

RECURSIVE SeqsUpTo(_, _)
SeqsUpTo(S, n) ==
    IF n = 0 THEN {<<>>}
    ELSE LET shorter == SeqsUpTo(S, n - 1)
         IN  shorter \cup {Append(q, x) : q \in {t \in shorter : Len(t) = n - 1}, x \in S}

Batches == SeqsUpTo(Rows, MaxBatch)

\* df.dropna(subset=[COL_DATE_EXCEL, COL_AMOUNT_EXCEL], how='any')
RECURSIVE DropNa(_)
DropNa(df) ==
    IF df = <<>> THEN <<>>
    ELSE IF Head(df).date = NaN \/ Head(df).amount = NaN THEN DropNa(Tail(df))
    ELSE <<Head(df)>> \o DropNa(Tail(df))

\* ---------------------------------------------------------- fingerprint
\* get_transaction_id with COL_BANK_ID_EXCEL unset (its default): the md5 of
\* "date_desc_amount", kept as the triple it hashes
get_transaction_id(row) ==
    IF ~IsFloat(row.amount) THEN NoId
    ELSE [k |-> "md5",
          date |-> ToDatetime(row.date, FALSE),
          desc |-> StrLower(StrStrip(row.desc)),
          amount |-> RoundCents(row.amount.v)]

NoColumn == [k |-> "nocolumn"]
Text(s) == [k |-> "text", s |-> s]

\* get_transaction_id with the bank-id column: bank_cell is NoColumn when
\* COL_BANK_ID_EXCEL is unset or not a column of the row, NaN for an empty cell
get_transaction_id_bank(row, bank_cell) ==
    IF bank_cell # NoColumn /\ bank_cell # NaN
    THEN [k |-> "bank", s |-> StrStrip(bank_cell.s)]
    ELSE get_transaction_id(row)

\* the row test without the date test of lines 368-371
RowParsesAmountOnly(row) == IsFloat(row.amount)

\* the row as the loop of process_excel_file parses it (lines 367-379)
RowParses(row) == ToDatetime(row.date, TRUE) # NaT /\ IsFloat(row.amount)

ParseRow(row) ==
    [tx_id |-> get_transaction_id(row),
     fecha |-> ToDatetime(row.date, TRUE),
     desc |-> IF StrStrip(row.desc) = <<>> THEN SinDescripcion ELSE StrStrip(row.desc),
     monto |-> RoundCents(row.amount.v)]

\* ---------------------------------------------------------- ledger store
IdsOf(led) == {t.transaction_id : t \in led}

\* a lookup that never finds the id
check_if_id_exists_never(led, transaction_id) == FALSE

\* a lookup that does not find an id whose row has a near match in the table
check_if_id_exists_unless_near(led, transaction_id) ==
    /\ transaction_id # NoId
    /\ transaction_id \in {t.transaction_id : t \in led}
    /\ \A t \in led : t.transaction_id = transaction_id =>
          \A u \in led : u = t \/ u.amount # t.amount

\* SELECT 1 FROM transactions WHERE transaction_id = ?
check_if_id_exists(led, transaction_id) ==
    transaction_id # NoId /\ transaction_id \in IdsOf(led)

\* insert_transaction without the PRIMARY KEY constraint
insert_transaction_nokey(led, tx_data, dberr) ==
    IF dberr THEN [ret |-> FALSE, ledger |-> led, integrity |-> FALSE]
    ELSE [ret |-> TRUE, ledger |-> led \cup {tx_data}, integrity |-> FALSE]

\* INSERT INTO transactions: IntegrityError on a repeated primary key, any
\* other sqlite3.Error (dberr) also answered False
\* an insert that overwrites the row holding the same key
insert_transaction_replace(led, tx_data, dberr) ==
    IF dberr THEN [ret |-> FALSE, ledger |-> led, integrity |-> FALSE]
    ELSE [ret |-> TRUE,
          ledger |-> {t \in led : t.transaction_id # tx_data.transaction_id}
                        \cup {tx_data},
          integrity |-> FALSE]

insert_transaction(led, tx_data, dberr) ==
    IF dberr THEN [ret |-> FALSE, ledger |-> led, integrity |-> FALSE]
    ELSE IF tx_data.transaction_id \in IdsOf(led)
         THEN [ret |-> FALSE, ledger |-> led, integrity |-> TRUE]
         ELSE [ret |-> TRUE, ledger |-> led \cup {tx_data}, integrity |-> FALSE]

\* --------------------------------------------------- near-duplicate matcher
Abs(x) == IF x < 0 THEN -x ELSE x
Min(x, y) == IF x < y THEN x ELSE y

\* the query without its date window
CandidatesAnyDate(led, amount, date_obj) ==
    {t \in led : Abs(t.amount - amount) <= amount_margin}

\* ORDER BY ... DESC: the sequences of the rows of S in which no row comes
\* before a row of a greater key (rows of one key come in any order)
RECURSIVE SortedDesc(_, _)
SortedDesc(S, key) ==
    IF S = {} THEN {<<>>}
    ELSE LET top == {t \in S : \A u \in S : key[t] >= key[u]}
         IN  UNION {{<<t>> \o rest : rest \in SortedDesc(S \ {t}, key)} : t \in top}

\* the place of a stored date text in SQLite's text order: the text
\* 'YYYY-MM-DD' of a day d, or that text followed by more characters (it
\* sorts after the day's own text and before the next day's)
DateKey(t) == 2 * t.transaction_date + (IF t.date_iso THEN 0 ELSE 1)

\* the query with a window one day wider on each side
CandidatesWiderWindow(led, amount, date_obj) ==
    {t \in led : /\ Abs(t.amount - amount) <= amount_margin
                 /\ DateKey(t) >= 2 * (date_obj - DATE_WINDOW_DAYS - 1)
                 /\ DateKey(t) <= 2 * (date_obj + DATE_WINDOW_DAYS + 1)}

\* WHERE amount BETWEEN ? AND ? AND transaction_date BETWEEN ? AND ?
Candidates(led, amount, date_obj) ==
    {t \in led : /\ Abs(t.amount - amount) <= amount_margin
                 /\ DateKey(t) >= 2 * (date_obj - DATE_WINDOW_DAYS)
                 /\ DateKey(t) <= 2 * (date_obj + DATE_WINDOW_DAYS)}

\* ORDER BY transaction_date DESC LIMIT 10: every order SQL may answer (rows
\* of one date come in any order)
QueryOrders(S) ==
    {SubSeq(f, 1, Min(Len(f), QUERY_LIMIT)) :
        f \in SortedDesc(S, [t \in S |-> DateKey(t)])}

Similarity(description, t) ==
    Ratio(JoinSplit(StrLower(description)), JoinSplit(StrLower(t.description)))

\* the scoring loop of find_potential_duplicate (lines 187-199) under the
\* configured threshold
RECURSIVE ScoreLoop(_, _, _, _, _, _)
ScoreLoop(potential_matches, description, threshold, i, best_match, highest_similarity) ==
    IF i > Len(potential_matches) THEN best_match
    ELSE LET similarity == Similarity(description, potential_matches[i])
         IN  IF RatioGE(similarity, threshold) /\ RatioGT(similarity, highest_similarity)
             THEN ScoreLoop(potential_matches, description, threshold, i + 1,
                            potential_matches[i], similarity)
             ELSE ScoreLoop(potential_matches, description, threshold, i + 1,
                            best_match, highest_similarity)

\* the loop under the threshold of the module
BestMatch(potential_matches, description, i, best_match, highest_similarity) ==
    ScoreLoop(potential_matches, description, Threshold, i, best_match,
              highest_similarity)

\* a search whose store error reaches the caller as an unusable answer
find_potential_duplicate_raising(led, amount, date_obj, description, dberr) ==
    IF dberr THEN {[transaction_id |-> NoId, transaction_date |-> date_obj,
                    date_iso |-> FALSE, description |-> description,
                    amount |-> amount]}
    ELSE {BestMatch(q, description, 1, NoMatch, ZeroRatio) :
            q \in QueryOrders(Candidates(led, amount, date_obj))}

\* find_potential_duplicate: the answers it can give (NoMatch for None)
find_potential_duplicate(led, amount, date_obj, description, dberr) ==
    IF dberr THEN {NoMatch}
    ELSE {BestMatch(q, description, 1, NoMatch, ZeroRatio) :
            q \in QueryOrders(Candidates(led, amount, date_obj))}

\* ------------------------------------------------------------- state
Runs == {"r1", "r2"}
Confs == {"c1"}

VARIABLES
    ledger,        \* the transactions table: a set of rows
    run,           \* run[r]: one call of process_excel_file
    conf,          \* conf[c]: one call of handle_confirm_transaction
    inserted_ok,   \* history: bag of the ids insert_transaction answered True for
    discarded,     \* history: the ids a discard was answered "ok" for
    faults,        \* environment: whether sqlite3 / pandas I/O may raise in this behaviour
    scenario,      \* history: the sheet of a followed run and the ledger it started on
    chat_data,     \* the bot's context.chat_data['pending_confirmation_details']
    bot,           \* the bot's handler in progress and its last reply
    fp,            \* a call of get_transaction_id: its arguments and its value
    query          \* a read of the table: its arguments and its answer

vars == <<ledger, run, conf, inserted_ok, discarded, faults, scenario, chat_data, bot, fp, query>>

\* what no handler of the API server touches
outside == <<faults, scenario, chat_data, bot, fp, query>>

\* the store errors and the start-up outcomes the environment can produce
DbErrs == IF faults THEN BOOLEAN ELSE {FALSE}
Outcomes == IF faults THEN {"ok", "db_init", "read_excel"} ELSE {"ok"}

NoResult == [status |-> "none"]
NoCur == [tx_id |-> NoId]

IdleRun ==
    [pc |-> "idle", n_rows |-> 0, n_clean |-> 0, df |-> <<>>, cur |-> NoCur,
     processed_rows_count |-> 0,
     new_transactions_inserted_count |-> 0,
     failed_rows_count |-> 0,
     exact_duplicates_skipped_count |-> 0,
     pending_confirmation_list |-> <<>>,
     inserted_transactions_for_email |-> <<>>,
     integrity_errors |-> 0,
     emails_sent |-> 0,
     result |-> NoResult]

NoRequest == [k |-> "norequest"]
NoResponse == [status |-> "none", http |-> 0, message |-> "none"]

\* ------------------------------------------------- process_excel_file
\* an early return that reports what was asked but never an error status
EarlyResultNeverError(status, message) ==
    [status |-> IF status = "error" THEN "warning" ELSE status,
     message |-> message, new_count_inserted |-> 0,
     failed_rows |-> 0, pending_confirmation |-> <<>>]

\* the early returns of lines 315, 341 and 343-351
EarlyResult(status, message) ==
    [status |-> status, message |-> message, new_count_inserted |-> 0,
     failed_rows |-> 0, pending_confirmation |-> <<>>]

\* lines 303-359 on the sheet raw: init_db, read and clean the sheet, reset
\* the counters; outcome is what init_db and pd.read_excel do
ReceiveSheet(r, raw) ==
    /\ run[r].pc \in {"idle", "done"}
    /\ \E outcome \in Outcomes :
         LET df == DropNa(raw)
             fresh == [IdleRun EXCEPT !.n_rows = Len(raw), !.n_clean = Len(df)]
         IN  run' = [run EXCEPT ![r] =
                IF outcome # "ok"
                THEN [fresh EXCEPT !.pc = "done", !.n_clean = 0,
                                   !.result = EarlyResult("error", outcome)]
                ELSE IF df = <<>>
                THEN [fresh EXCEPT !.pc = "done",
                                   !.result = EarlyResult("warning", "empty")]
                ELSE [fresh EXCEPT !.pc = "loop", !.df = df]]
    /\ UNCHANGED <<ledger, conf, inserted_ok, discarded, faults, fp, query>>

\* an upload sent to /api/process_excel by a client other than the bot
StartRun(r) ==
    /\ \E raw \in Batches : ReceiveSheet(r, raw)
    /\ UNCHANGED <<scenario, chat_data, bot>>

\* the failure branch without its `failed_rows_count += 1`
RowFailedUncounted(s) ==
    [s EXCEPT !.pc = "loop", !.df = Tail(s.df), !.cur = NoCur]

\* a failed row that ends the loop instead of continuing it
RowFailedAborts(s) ==
    [s EXCEPT !.pc = "loop", !.df = <<>>, !.cur = NoCur,
              !.failed_rows_count = @ + 1]

\* `failed_rows_count += 1; continue`
RowFailed(s) ==
    [s EXCEPT !.pc = "loop", !.df = Tail(s.df), !.cur = NoCur,
              !.failed_rows_count = @ + 1]

\* lines 362-401: parse the row, make its id, look the id up
RowCheck(r) ==
    /\ run[r].pc = "loop"
    /\ run[r].df # <<>>
    /\ \E dberr \in DbErrs :
         LET s == [run[r] EXCEPT !.processed_rows_count = @ + 1]
             row == Head(s.df)
             cur == ParseRow(row)
         IN  run' = [run EXCEPT ![r] =
                IF ~RowParses(row) THEN RowFailed(s)
                ELSE IF cur.tx_id = NoId THEN RowFailed(s)
                ELSE IF dberr THEN RowFailed(s)
                ELSE IF check_if_id_exists(ledger, cur.tx_id)
                THEN [s EXCEPT !.df = Tail(s.df),
                               !.exact_duplicates_skipped_count = @ + 1]
                ELSE [s EXCEPT !.pc = "find", !.cur = cur]]
    /\ UNCHANGED <<ledger, conf, inserted_ok, discarded>>
    /\ UNCHANGED outside

\* datetime.strptime(existing_match[COL_DB_DATE], '%Y-%m-%d') of line 421:
\* ValueError on a stored date text that is not exactly 'YYYY-MM-DD'
StrptimeOk(existing_match) == existing_match.date_iso

PendingItem(cur, existing_match) ==
    [new_transaction |->
        [potential_id |-> cur.tx_id, date_db |-> cur.fecha.d,
         desc |-> cur.desc, amount |-> cur.monto],
     existing_match |->
        [id |-> existing_match.transaction_id,
         date |-> existing_match.transaction_date,
         desc |-> existing_match.description,
         amount |-> existing_match.amount]]

\* lines 403-426: ask the matcher; a match makes the row pending
RowFind(r) ==
    /\ run[r].pc = "find"
    /\ \E dberr \in DbErrs :
         LET s == run[r]
         IN  \E existing_match \in find_potential_duplicate(
                    ledger, s.cur.monto, s.cur.fecha.d, s.cur.desc, dberr) :
                run' = [run EXCEPT ![r] =
                    IF existing_match = NoMatch THEN [s EXCEPT !.pc = "insert"]
                    ELSE IF ~StrptimeOk(existing_match) THEN RowFailed(s)
                    ELSE [s EXCEPT !.pc = "loop", !.df = Tail(s.df), !.cur = NoCur,
                                   !.pending_confirmation_list =
                                       Append(@, PendingItem(s.cur, existing_match))]]
    /\ UNCHANGED <<ledger, conf, inserted_ok, discarded>>
    /\ UNCHANGED outside

\* a date text that begins with the 'YYYY-MM-DD' of day d and goes on
\* (for instance 'YYYY-MM-DDT00:00:00')
LongDate(d) == [k |-> "long", d |-> d]
\* the text 'YYYY-MM-DD' of day d
IsoDate(d) == [k |-> "iso", d |-> d]

\* the row process_excel_file writes: its date is fecha_dt.strftime('%Y-%m-%d')
TxData(tx_id, date_db, desc, amount) ==
    [transaction_id |-> tx_id, transaction_date |-> date_db, date_iso |-> TRUE,
     description |-> desc, amount |-> amount]

\* a row written with the date of the request brought to 'YYYY-MM-DD'
TxDataOfDetailsIsoDate(tx_id, details) ==
    TxData(tx_id, details.date_db.d, details.desc, details.amount)

\* the row handle_confirm_transaction writes: the date column is TEXT and
\* keeps the date_db text of the request as it is
TxDataOfDetails(tx_id, details) ==
    [TxData(tx_id, details.date_db.d, details.desc, details.amount)
        EXCEPT !.date_iso = (details.date_db.k = "iso")]

\* lines 428-450: insert the row; False from insert_transaction is a failure
RowInsert(r) ==
    /\ run[r].pc = "insert"
    /\ \E dberr \in DbErrs :
         LET s == run[r]
             cur == s.cur
             out == insert_transaction(
                        ledger, TxData(cur.tx_id, cur.fecha.d, cur.desc, cur.monto), dberr)
         IN  /\ ledger' = out.ledger
             /\ inserted_ok' = IF out.ret THEN inserted_ok (+) SetToBag({cur.tx_id})
                               ELSE inserted_ok
             /\ run' = [run EXCEPT ![r] =
                    IF out.ret
                    THEN [s EXCEPT !.pc = "loop", !.df = Tail(s.df), !.cur = NoCur,
                                   !.new_transactions_inserted_count = @ + 1,
                                   !.inserted_transactions_for_email =
                                       Append(@, [fecha |-> cur.fecha.d,
                                                  descripcion |-> cur.desc,
                                                  monto |-> cur.monto])]
                    ELSE [RowFailed(s) EXCEPT !.integrity_errors =
                                   @ + (IF out.integrity THEN 1 ELSE 0)]]
    /\ UNCHANGED <<conf, discarded>>
    /\ UNCHANGED outside

\* the status with the guard of line 477 left out: failures override pending
FinalStatusFailuresFirst(pending_confirmation_list, failed_rows_count) ==
    IF failed_rows_count > 0 THEN "warning"
    ELSE IF Len(pending_confirmation_list) > 0 THEN "confirmation_required"
    ELSE "success"

\* lines 464-477
FinalStatus(pending_confirmation_list, failed_rows_count) ==
    LET s1 == IF Len(pending_confirmation_list) > 0
              THEN "confirmation_required" ELSE "success"
    IN  IF failed_rows_count > 0 /\ s1 # "confirmation_required" THEN "warning" ELSE s1

\* lines 456-501: status, notification e-mail, the structured result
\* a notification for every finished batch, whatever its list
NotifyCountAlways(transactions) == 1

\* the calls of send_email at the end of a batch: one when the list of
\* direct insertions is not empty
NotifyCount(transactions) == IF transactions # <<>> THEN 1 ELSE 0

FinishRun(r) ==
    /\ run[r].pc = "loop"
    /\ run[r].df = <<>>
    /\ LET s == run[r]
       IN  run' = [run EXCEPT ![r] =
              [s EXCEPT !.pc = "done",
                        !.emails_sent =
                            NotifyCount(s.inserted_transactions_for_email),
                        !.result =
                            [status |-> FinalStatus(s.pending_confirmation_list,
                                                    s.failed_rows_count),
                             message |-> "processed",
                             new_count_inserted |-> s.new_transactions_inserted_count,
                             pending_count |-> Len(s.pending_confirmation_list),
                             duplicates_skipped |-> s.exact_duplicates_skipped_count,
                             failed_rows |-> s.failed_rows_count,
                             pending_confirmation |-> s.pending_confirmation_list]]]
    /\ UNCHANGED <<ledger, conf, inserted_ok, discarded>>
    /\ UNCHANGED outside

\* ----------------------------------------- handle_confirm_transaction
NoBody == [k |-> "nobody"]
NoDetails == [k |-> "none"]
PartialDetails == [k |-> "partial"]
NonDictDetails == [k |-> "nondict"]

\* the 'details' the session layer sends back: new_transaction of a pending item
DetailsOf(row) ==
    [k |-> "full", date_db |-> IsoDate(ParseRow(row).fecha.d),
     desc |-> ParseRow(row).desc, amount |-> ParseRow(row).monto]

Request(transaction_id, action, details) ==
    [k |-> "json", transaction_id |-> transaction_id, action |-> action,
     details |-> details]

\* details with the three required keys whose date_db is a longer date text
LongDateDetailsOf(row) ==
    [DetailsOf(row) EXCEPT !.date_db = LongDate(ParseRow(row).fecha.d)]

\* what the session layer sends for a pending row, and a resolver-only caller
WellFormedRequests ==
    {Request(get_transaction_id(RowB), a, DetailsOf(RowB)) : a \in {"insert", "discard"}}
    \cup {Request(get_transaction_id(RowA), "insert", DetailsOf(RowA))}

MalformedRequests ==
    {NoBody, Request(get_transaction_id(RowB), "other", DetailsOf(RowB))}
    \cup {Request(NoId, a, DetailsOf(RowB)) : a \in {"insert", "discard"}}
    \cup {Request(get_transaction_id(RowB), a, d) :
            a \in {"insert", "discard"},
            d \in {NoDetails, PartialDetails, NonDictDetails}}

Requests == WellFormedRequests \cup MalformedRequests

\* a caller of /api/confirm_transaction that writes its own details: a date
\* text with a time part, or the description of another purchase
OwnDetailsRequests ==
    {Request(get_transaction_id(RowA), "insert", LongDateDetailsOf(RowA)),
     Request(get_transaction_id(RowA), "insert", DetailsOf(RowB))}

Response(status, http, message) ==
    [status |-> status, http |-> http, message |-> message]

IdleConf ==
    [pc |-> "idle", data |-> NoRequest, existed_at_start |-> FALSE,
     integrity |-> FALSE, response |-> NoResponse]

Answer(s, response) == [s EXCEPT !.pc = "done", !.response = response]

\* the validations asking every action, discard too, for details
RejectionDetailsForAll(data) ==
    IF data = NoBody THEN "empty_body"
    ELSE IF data.transaction_id = NoId \/ data.action \notin {"insert", "discard"}
         THEN "invalid_action"
    ELSE IF data.details = NoDetails THEN "missing_details"
    ELSE IF data.action = "insert" /\ data.details = NonDictDetails
         THEN "internal"
    ELSE IF data.action = "insert" /\ data.details = PartialDetails
         THEN "incomplete_details"
    ELSE "no"

\* the validations without `not tx_id`
RejectionNoIdCheck(data) ==
    IF data = NoBody THEN "empty_body"
    ELSE IF data.action \notin {"insert", "discard"} THEN "invalid_action"
    ELSE IF data.action = "insert" /\ data.details = NoDetails
         THEN "missing_details"
    ELSE IF data.action = "insert" /\ data.details = NonDictDetails
         THEN "internal"
    ELSE IF data.action = "insert" /\ data.details = PartialDetails
         THEN "incomplete_details"
    ELSE "no"

\* lines 133-157: the validations, in the order the handler makes them
Rejection(data) ==
    IF data = NoBody THEN "empty_body"
    ELSE IF data.transaction_id = NoId \/ data.action \notin {"insert", "discard"}
         THEN "invalid_action"
    ELSE IF data.action = "insert" /\ data.details = NoDetails
         THEN "missing_details"
    ELSE IF data.action = "insert" /\ data.details = NonDictDetails
         THEN "internal"
    ELSE IF data.action = "insert" /\ data.details = PartialDetails
         THEN "incomplete_details"
    ELSE "no"

\* lines 131-157 and 181-184 on the request data: validate it; a discard is
\* answered here
ReceiveConfirm(c, data) ==
    /\ conf[c].pc \in {"idle", "done"}
    /\ LET s == [IdleConf EXCEPT
                    !.data = data,
                    !.existed_at_start =
                        data # NoBody /\ data.transaction_id \in IdsOf(ledger)]
           rejected == Rejection(data)
       IN  IF rejected = "internal"
           THEN /\ conf' = [conf EXCEPT ![c] =
                              Answer(s, Response("error", 500, "internal"))]
                /\ UNCHANGED discarded
           ELSE IF rejected # "no"
           THEN /\ conf' = [conf EXCEPT ![c] =
                              Answer(s, Response("error", 400, rejected))]
                /\ UNCHANGED discarded
           ELSE IF data.action = "insert"
           THEN /\ conf' = [conf EXCEPT ![c] = [s EXCEPT !.pc = "check"]]
                /\ UNCHANGED discarded
           ELSE /\ conf' = [conf EXCEPT ![c] =
                              Answer(s, Response("ok", 200, "discarded"))]
                /\ discarded' = discarded \cup {data.transaction_id}
    /\ UNCHANGED <<ledger, run, inserted_ok, faults, fp, query>>

\* a request sent to /api/confirm_transaction by a client other than the bot
ConfirmStart(c) ==
    /\ \E data \in Requests : ReceiveConfirm(c, data)
    /\ UNCHANGED <<scenario, chat_data, bot>>

\* lines 159-162: the existence check of an insert confirmation
ConfirmCheck(c) ==
    /\ conf[c].pc = "check"
    /\ \E dberr \in DbErrs :
         LET data == conf[c].data
         IN  conf' = [conf EXCEPT ![c] =
                IF dberr THEN Answer(conf[c], Response("error", 500, "internal"))
                ELSE IF check_if_id_exists(ledger, data.transaction_id)
                THEN Answer(conf[c], Response("ok", 200, "already_existed"))
                ELSE [conf[c] EXCEPT !.pc = "insert"]]
    /\ UNCHANGED <<ledger, run, inserted_ok, discarded>>
    /\ UNCHANGED outside

\* lines 164-179: the insert of an insert confirmation
ConfirmInsert(c) ==
    /\ conf[c].pc = "insert"
    /\ \E dberr \in DbErrs :
         LET data == conf[c].data
             out == insert_transaction(
                        ledger,
                        TxDataOfDetails(data.transaction_id, data.details),
                        dberr)
         IN  /\ ledger' = out.ledger
             /\ inserted_ok' = IF out.ret
                               THEN inserted_ok (+) SetToBag({data.transaction_id})
                               ELSE inserted_ok
             /\ conf' = [conf EXCEPT ![c] =
                    IF out.ret
                    THEN Answer(conf[c], Response("ok", 200, "inserted"))
                    ELSE [Answer(conf[c], Response("error", 500, "insert_failed"))
                             EXCEPT !.integrity = out.integrity]]
    /\ UNCHANGED <<run, discarded>>
    /\ UNCHANGED outside

\* ------------------------------------------- telegram_bot_listener.py
\* the ids a callback query can name: the buttons of the questions asked
CallbackIds ==
    {get_transaction_id(RowA), get_transaction_id(RowB)}
        \cup {e.potential_id : e \in chat_data}

IdleBot == [pc |-> "idle", action |-> "none", potential_id |-> NoId, reply |-> "none"]

\* whether the HTTP exchange of the bot with the API server can fail
Lost == IF faults THEN BOOLEAN ELSE {FALSE}

\* a lookup that answers with details for a candidate it does not hold
PendingDetailsAssumed(cd, potential_id) ==
    IF \E e \in cd : e.potential_id = potential_id
    THEN CHOOSE e \in cd : e.potential_id = potential_id
    ELSE [potential_id |-> potential_id, date_db |-> 6, desc |-> <<"x">>,
          amount |-> 100]

\* chat_data['pending_confirmation_details'].get(potential_id)
PendingDetails(cd, potential_id) ==
    IF \E e \in cd : e.potential_id = potential_id
    THEN CHOOSE e \in cd : e.potential_id = potential_id
    ELSE NoDetails

\* the pending details as the 'details' of the payload
AsDetails(new_tx) ==
    [k |-> "full", date_db |-> IsoDate(new_tx.date_db), desc |-> new_tx.desc,
     amount |-> new_tx.amount]

\* lines 125-135: chat_data[...][potential_id] = new_tx for every pending item
RECURSIVE StorePending(_, _)
StorePending(cd, pending_list) ==
    IF pending_list = <<>> THEN cd
    ELSE LET new_tx == Head(pending_list).new_transaction
         IN  StorePending({e \in cd : e.potential_id # new_tx.potential_id}
                              \cup {new_tx},
                          Tail(pending_list))

\* the sheets a user sends to the bot: a purchase and its near duplicate
BotSheets == SeqsUpTo({RowA, RowB}, MaxBatch)

\* handle_document, lines 36-73: send the sheet to /api/process_excel
handle_document(r) ==
    /\ bot.pc = "idle"
    /\ \E raw \in BotSheets : ReceiveSheet(r, raw)
    /\ bot' = [IdleBot EXCEPT !.pc = "process_excel"]
    /\ UNCHANGED <<scenario, chat_data>>

\* handle_document, lines 74-188: read the answer, keep the pending details
handle_document_reply(r) ==
    /\ bot.pc = "process_excel"
    /\ run[r].pc = "done"
    /\ \E lost \in Lost :
         LET result == run[r].result
             api_result == ~lost /\ result.status # "error"
         IN  /\ chat_data' =
                   IF api_result /\ result.status = "confirmation_required"
                   THEN StorePending(chat_data, result.pending_confirmation)
                   ELSE chat_data
             /\ bot' = [IdleBot EXCEPT
                          !.reply = IF api_result THEN result.status ELSE "no_result"]
    /\ UNCHANGED <<ledger, run, conf, inserted_ok, discarded, faults, scenario, fp, query>>

\* handle_confirmation_callback, lines 191-229: look the candidate up in the
\* pending details and send the decision to /api/confirm_transaction
handle_confirmation_callback(c) ==
    /\ bot.pc = "idle"
    /\ \E action \in {"insert", "discard"}, potential_id \in CallbackIds :
         LET pending_details == PendingDetails(chat_data, potential_id)
         IN  IF pending_details = NoDetails
             THEN /\ bot' = [pc |-> "idle", action |-> action,
                             potential_id |-> potential_id, reply |-> "not_found"]
                  /\ UNCHANGED <<ledger, run, conf, inserted_ok, discarded, faults, fp, query>>
             ELSE /\ ReceiveConfirm(c, Request(potential_id, action,
                                               AsDetails(pending_details)))
                  /\ bot' = [pc |-> "confirm_transaction", action |-> action,
                             potential_id |-> potential_id, reply |-> "none"]
    /\ UNCHANGED <<scenario, chat_data>>

\* an "ok" that clears the whole of pending_confirmation_details
DeletePendingAll(cd, potential_id) == {}

\* del context.chat_data['pending_confirmation_details'][potential_id]
DeletePending(cd, potential_id) ==
    {e \in cd : e.potential_id # potential_id}

\* handle_confirmation_callback, lines 230-256: read the answer; an "ok"
\* deletes the pending details
handle_confirmation_reply(c) ==
    /\ bot.pc = "confirm_transaction"
    /\ conf[c].pc = "done"
    /\ \E lost \in Lost :
         LET response == conf[c].response
             raised == lost \/ response.http >= 400
             ok == ~raised /\ response.status = "ok"
         IN  /\ chat_data' =
                   IF ok THEN DeletePending(chat_data, bot.potential_id)
                   ELSE chat_data
             /\ bot' = [bot EXCEPT
                          !.pc = "idle",
                          !.reply = IF ok THEN "ok"
                                    ELSE IF raised THEN "network_error"
                                    ELSE "problem"]
    /\ UNCHANGED <<ledger, run, conf, inserted_ok, discarded, faults, scenario, fp, query>>

\* main, lines 305-325: the application is built without persistence, so a
\* restart of the bot process loses chat_data and the handler in progress
BotRestart ==
    /\ chat_data # {} \/ bot # IdleBot
    /\ chat_data' = {}
    /\ bot' = IdleBot
    /\ UNCHANGED <<ledger, run, conf, inserted_ok, discarded, faults, scenario, fp, query>>

\* ------------------------------------------------------ specifications
NoScenario == [k |-> "none"]
NoCall == [k |-> "none"]

Init ==
    /\ ledger = {}
    /\ run = [r \in Runs |-> IdleRun]
    /\ conf = [c \in Confs |-> IdleConf]
    /\ inserted_ok = EmptyBag
    /\ discarded = {}
    /\ faults = TRUE
    /\ scenario = NoScenario
    /\ chat_data = {}
    /\ bot = IdleBot
    /\ fp = NoCall
    /\ query = NoQuery

RunStep(r) ==
    StartRun(r) \/ RowCheck(r) \/ RowFind(r) \/ RowInsert(r) \/ FinishRun(r)

ConfStep(c) == ConfirmStart(c) \/ ConfirmCheck(c) \/ ConfirmInsert(c)

\* one uploader and one resolver against the shared store
Next == RunStep("r1") \/ \E c \in Confs : ConfStep(c)

Spec == Init /\ [][Next]_vars

\* two uploaders against the shared store
NextTwoRuns == \E r \in Runs : RunStep(r)

SpecTwoRuns == Init /\ [][NextTwoRuns]_vars

\* calls of get_transaction_id on its own
MaxDescLen == 3
Alphabet == {"A", "a", " "}
Descs(n) == SeqsUpTo(Alphabet, n)

\* two rows that may differ in the text of the description, the amount, the day
PairCalls(n) ==
    {[k |-> "pair", row |-> Row(Ts(5), d1, a1), other |-> Row(Ts(t2), d2, a2)] :
        d1 \in Descs(n), d2 \in Descs(n + 1),
        a1 \in {Num(1000), Num(1004)}, a2 \in {Num(1000), Num(1005)},
        t2 \in {5, 6}}

\* a row and the cell of its bank-id column
BankCalls ==
    {[k |-> "bank", row |-> row, bank_cell |-> cell] :
        row \in {RowA, RowBadAmount, RowBadDate},
        cell \in {NoColumn, NaN} \cup {Text(d) : d \in Descs(MaxDescLen)}}

InitFingerprint ==
    /\ ledger = {}
    /\ run = [r \in Runs |-> IdleRun]
    /\ conf = [c \in Confs |-> IdleConf]
    /\ inserted_ok = EmptyBag
    /\ discarded = {}
    /\ faults = TRUE
    /\ scenario = NoScenario
    /\ chat_data = {}
    /\ bot = IdleBot
    /\ fp \in PairCalls(MaxDescLen) \cup BankCalls
    /\ query = NoQuery

FingerprintPair ==
    /\ fp.k = "pair"
    /\ fp' = [k |-> "pair_done", row |-> fp.row, other |-> fp.other,
              id |-> get_transaction_id(fp.row),
              again |-> get_transaction_id(fp.row),
              other_id |-> get_transaction_id(fp.other)]
    /\ UNCHANGED <<ledger, run, conf, inserted_ok, discarded, faults, scenario,
                   chat_data, bot, query>>

FingerprintBank ==
    /\ fp.k = "bank"
    /\ fp' = [k |-> "bank_done", row |-> fp.row, bank_cell |-> fp.bank_cell,
              id |-> get_transaction_id_bank(fp.row, fp.bank_cell)]
    /\ UNCHANGED <<ledger, run, conf, inserted_ok, discarded, faults, scenario,
                   chat_data, bot, query>>

NextFingerprint == FingerprintPair \/ FingerprintBank

SpecFingerprint == InitFingerprint /\ [][NextFingerprint]_vars

\* one run followed from a ledger that earlier uploads left
MaxSheet == 3
RowNear2 == Row(Ts(7), <<"a", " ", " ", "b">>, Num(1000))
RowFar10 == Row(Ts(15), <<"a", " ", " ", "b">>, Num(1000))
RowE2 == Row(Ts(20), <<"c", "o", "m", "p", "r", "a", " ", "0", "0", "1">>, Num(2000))
RowC == Row(Ts(21), <<"c", "o", "m", "p", "r", "a", " ", "0", "0", "2">>, Num(2000))

ScenarioRows == {RowA, RowNear2, RowFar10, RowE2, RowC, RowBadDate, RowBadAmount}

\* the sheets of up to n rows of S without a repeated row
RECURSIVE SheetsUpTo(_, _)
SheetsUpTo(S, n) ==
    IF n = 0 THEN {<<>>}
    ELSE LET shorter == SheetsUpTo(S, n - 1)
         IN  shorter \cup
             UNION {{Append(q, x) : x \in S \ {q[i] : i \in 1..Len(q)}} :
                        q \in {t \in shorter : Len(t) = n - 1}}

ScenarioSheets == SheetsUpTo(ScenarioRows, MaxSheet)

\* the ledger rows that inserting the sheet rows S left
LedgerOf(S) ==
    {TxData(ParseRow(row).tx_id, ParseRow(row).fecha.d, ParseRow(row).desc,
            ParseRow(row).monto) : row \in S}

ScenarioLedgers ==
    {LedgerOf(S) : S \in {T \in SUBSET {RowA, RowNear2, RowE2} : Cardinality(T) <= 2}}

InitScenario ==
    /\ ledger \in ScenarioLedgers
    /\ run = [r \in Runs |-> IdleRun]
    /\ conf = [c \in Confs |-> IdleConf]
    /\ inserted_ok = SetToBag(IdsOf(ledger))
    /\ discarded = {}
    /\ faults \in BOOLEAN
    /\ scenario = NoScenario
    /\ chat_data = {}
    /\ bot = IdleBot
    /\ fp = NoCall
    /\ query = NoQuery

StartScenarioRun(r) ==
    /\ scenario = NoScenario
    /\ \E raw \in ScenarioSheets :
          /\ ReceiveSheet(r, raw)
          /\ scenario' = [k |-> "run", sheet |-> raw, ledger |-> ledger]
    /\ UNCHANGED <<chat_data, bot>>

NextScenario ==
    \/ StartScenarioRun("r1")
    \/ RowCheck("r1") \/ RowFind("r1") \/ RowInsert("r1") \/ FinishRun("r1")

SpecScenario == InitScenario /\ [][NextScenario]_vars

\* one upload at a time and a caller of /api/confirm_transaction that may
\* write its own details
ConfirmStartOwn(c) ==
    /\ \E data \in WellFormedRequests \cup OwnDetailsRequests :
          ReceiveConfirm(c, data)
    /\ UNCHANGED <<scenario, chat_data, bot>>

\* an upload of a purchase, its near duplicate, or both
StartUpload(r) ==
    /\ \E raw \in BotSheets : ReceiveSheet(r, raw)
    /\ UNCHANGED <<scenario, chat_data, bot>>

InitResolver ==
    /\ ledger = {}
    /\ run = [r \in Runs |-> IdleRun]
    /\ conf = [c \in Confs |-> IdleConf]
    /\ inserted_ok = EmptyBag
    /\ discarded = {}
    /\ faults \in BOOLEAN
    /\ scenario = NoScenario
    /\ chat_data = {}
    /\ bot = IdleBot
    /\ fp = NoCall
    /\ query = NoQuery

\* ------------------------------------------------- one uploader on its own
\* sheets of the two purchases, repeated or not
OwnSheets == SeqsUpTo({RowA, RowB}, MaxSheet)

StartBatch(r) ==
    /\ \E raw \in OwnSheets : ReceiveSheet(r, raw)
    /\ UNCHANGED <<scenario, chat_data, bot>>

NextBatch ==
    \/ StartBatch("r1")
    \/ RowCheck("r1")
    \/ RowFind("r1")
    \/ RowInsert("r1")
    \/ FinishRun("r1")

SpecBatch == InitResolver /\ [][NextBatch]_vars

\* ------------------------------------------- the same sheet uploaded twice
\* ten purchases of the amount of RowA after its day, no two descriptions alike
BusyRows ==
    <<Row(Ts(6), <<"c">>, Num(1000)), Row(Ts(6), <<"d">>, Num(1000)),
      Row(Ts(6), <<"e">>, Num(1000)), Row(Ts(7), <<"f">>, Num(1000)),
      Row(Ts(7), <<"g">>, Num(1000)), Row(Ts(7), <<"h">>, Num(1000)),
      Row(Ts(8), <<"i">>, Num(1000)), Row(Ts(8), <<"j">>, Num(1000)),
      Row(Ts(9), <<"k">>, Num(1000)), Row(Ts(9), <<"l">>, Num(1000))>>

\* a purchase whose date cell is the text '06/05/2024': 6 May read day first
\* (day 6), 5 June read month first (day 36)
RowSlash == Row(DateStr(6, 36), <<"A", " ", "b">>, Num(1000))

RerunSheets == OwnSheets \cup {<<RowB>> \o BusyRows, <<RowSlash>>}

InitRerun ==
    /\ ledger \in {{}, LedgerOf({RowA})}
    /\ run = [r \in Runs |-> IdleRun]
    /\ conf = [c \in Confs |-> IdleConf]
    /\ inserted_ok = SetToBag(IdsOf(ledger))
    /\ discarded = {}
    /\ faults = FALSE
    /\ scenario = NoScenario
    /\ chat_data = {}
    /\ bot = IdleBot
    /\ fp = NoCall
    /\ query = NoQuery

\* the first upload of the sheet
StartFirstRun(r) ==
    /\ scenario = NoScenario
    /\ \E raw \in RerunSheets :
          /\ ReceiveSheet(r, raw)
          /\ scenario' = [k |-> "run", sheet |-> raw, ledger |-> ledger]
    /\ UNCHANGED <<chat_data, bot>>

\* the same sheet uploaded again once the first upload has returned
StartRerun(r) ==
    /\ scenario.k = "run"
    /\ run["r1"].pc = "done"
    /\ ReceiveSheet(r, scenario.sheet)
    /\ scenario' = [k |-> "rerun", sheet |-> scenario.sheet, ledger |-> ledger]
    /\ UNCHANGED <<chat_data, bot>>

NextRerun ==
    \/ StartFirstRun("r1")
    \/ StartRerun("r2")
    \/ \E r \in Runs : RowCheck(r) \/ RowFind(r) \/ RowInsert(r) \/ FinishRun(r)

SpecRerun == InitRerun /\ [][NextRerun]_vars

\* the step in which the call of find_potential_duplicate returns, whatever
\* its answer: the row goes on to the insert, is made pending against a row
\* of the table, or is counted failed
RowFindReturns(r) ==
    /\ run[r].pc = "find"
    /\ \E x \in {[run[r] EXCEPT !.pc = "insert"], RowFailed(run[r])}
                \cup {[run[r] EXCEPT !.pc = "loop", !.df = Tail(@), !.cur = NoCur,
                                     !.pending_confirmation_list =
                                         Append(@, PendingItem(run[r].cur, t))] :
                        t \in ledger} :
          run' = [run EXCEPT ![r] = x]
    /\ UNCHANGED <<ledger, conf, inserted_ok, discarded>>
    /\ UNCHANGED outside

\* the request thread of a started batch keeps running: each step of the
\* row loop and the return are taken when they are due
SpecBatchFair ==
    /\ SpecBatch
    /\ WF_vars(RowCheck("r1"))
    /\ WF_vars(RowFindReturns("r1"))
    /\ WF_vars(RowInsert("r1"))
    /\ WF_vars(FinishRun("r1"))

\* ------------------------------------------------ GET /api/last_transactions
MaxRows == 2
CountChars == {"0", "1", "-", "x"}
NoArg == [k |-> "missing", s |-> <<>>]
CountArg(s) == [k |-> "text", s |-> s]
CountArgs == {NoArg} \cup {CountArg(s) : s \in SeqsUpTo(CountChars, 3)}

\* the rows of the table as the listing reads them: the date text and the
\* second of admission (the listing answers their date, description and
\* amount)
RecentRows == [transaction_date : {5, 6}, date_iso : BOOLEAN, processed_at : {1, 2}]
RecentTables(n) ==
    UNION {{ {[rowid |-> i, transaction_date |-> f[i].transaction_date,
               date_iso |-> f[i].date_iso, processed_at |-> f[i].processed_at] :
                 i \in 1..k} : f \in [1..k -> RecentRows]} : k \in 0..n}

IsDigits(s) == s # <<>> /\ \A i \in 1..Len(s) : s[i] \in {"0", "1"}
RECURSIVE DigitsValue(_)
DigitsValue(s) ==
    IF s = <<>> THEN 0
    ELSE 10 * DigitsValue(SubSeq(s, 1, Len(s) - 1)) + (IF s[Len(s)] = "1" THEN 1 ELSE 0)

\* int(text): a sign and decimal digits, or ValueError
ParseInt(s) ==
    IF s # <<>> /\ Head(s) = "-"
    THEN [ok |-> IsDigits(Tail(s)), v |-> 0 - DigitsValue(Tail(s))]
    ELSE [ok |-> IsDigits(s), v |-> DigitsValue(s)]

\* try: count = int(request.args.get('count', 5)); assert 1 <= count <= 100
\* except: count = 5
CountOf(arg) ==
    IF arg.k = "missing" THEN 5
    ELSE LET n == ParseInt(arg.s)
         IN  IF ~n.ok THEN 5
             ELSE IF 1 <= n.v /\ n.v <= 100 THEN n.v
             ELSE 5

\* ORDER BY transaction_date DESC, processed_at DESC
RecentKey(t) == 4 * DateKey(t) + t.processed_at

\* the answers of the query of get_last_transactions with LIMIT count
LastTransactions(table, count) ==
    {SubSeq(f, 1, Min(Len(f), count)) :
        f \in SortedDesc(table, [t \in table |-> RecentKey(t)])}

InitRecent ==
    /\ ledger = {}
    /\ run = [r \in Runs |-> IdleRun]
    /\ conf = [c \in Confs |-> IdleConf]
    /\ inserted_ok = EmptyBag
    /\ discarded = {}
    /\ faults \in BOOLEAN
    /\ scenario = NoScenario
    /\ chat_data = {}
    /\ bot = IdleBot
    /\ fp = NoCall
    /\ query \in [k : {"recent"}, table : RecentTables(MaxRows), arg : CountArgs]

get_last_transactions ==
    /\ query.k = "recent"
    /\ \E dberr \in DbErrs :
         LET count == CountOf(query.arg)
         IN  IF dberr
             THEN query' = [k |-> "recent_done", table |-> query.table,
                            arg |-> query.arg, count |-> count, http |-> 500,
                            transactions |-> <<>>]
             ELSE \E transactions \in LastTransactions(query.table, count) :
                     query' = [k |-> "recent_done", table |-> query.table,
                               arg |-> query.arg, count |-> count, http |-> 200,
                               transactions |-> transactions]
    /\ UNCHANGED <<ledger, run, conf, inserted_ok, discarded, faults, scenario,
                   chat_data, bot, fp>>

NextRecent == get_last_transactions

SpecRecent == InitRecent /\ [][NextRecent]_vars

\* ------------------------------------------- find_potential_duplicate alone
\* a stored row of the day, the description and the amount (in cents) given
StoredRow(day, iso, desc, cents) ==
    [TxData(get_transaction_id(Row(Ts(day), desc, Num(10 * cents))), day, desc, cents)
        EXCEPT !.date_iso = iso]

\* the purchase looked for: 'a b' of day 10 for 10.00
TargetDesc == <<"a", " ", "b">>
TargetDay == DATE_WINDOW_DAYS + 7
TargetCents == 1000

\* rows around the purchase looked for
NearRows ==
    {StoredRow(TargetDay - 1, TRUE, <<"a", " ", "b">>, TargetCents),
     StoredRow(TargetDay + 2, TRUE, <<"A", " ", " ", "b">>, TargetCents + 1),
     StoredRow(TargetDay, TRUE, <<"a", " ", "c">>, TargetCents - 1),
     StoredRow(TargetDay - 2, TRUE, <<"x", "y">>, TargetCents),
     StoredRow(TargetDay + DATE_WINDOW_DAYS + 1, TRUE, <<"a", " ", "b">>, TargetCents),
     StoredRow(TargetDay, TRUE, <<"a", " ", "b">>, TargetCents + 2),
     StoredRow(TargetDay - DATE_WINDOW_DAYS, FALSE, <<"a", " ", "b">>, TargetCents),
     StoredRow(TargetDay - 1, TRUE, <<"a", " ", "c">>, TargetCents + 1)}

\* six other purchases of the same amount on the three days after the
\* target day
CrowdRows ==
    {StoredRow(TargetDay + d, TRUE, <<"x", c>>, TargetCents) :
        d \in 1..DATE_WINDOW_DAYS, c \in {"p", "q"}}

MatcherLedgers == {near \cup crowd : near \in SUBSET NearRows, crowd \in {{}, CrowdRows}}

\* values of SIMILARITY_THRESHOLD
Thresholds == {ZeroRatio, Threshold, [num |-> 1, den |-> 1]}

InitMatcher ==
    /\ ledger \in MatcherLedgers
    /\ run = [r \in Runs |-> IdleRun]
    /\ conf = [c \in Confs |-> IdleConf]
    /\ inserted_ok = EmptyBag
    /\ discarded = {}
    /\ faults \in BOOLEAN
    /\ scenario = NoScenario
    /\ chat_data = {}
    /\ bot = IdleBot
    /\ fp = NoCall
    /\ query \in [k : {"find"}, amount : {TargetCents}, date_obj : {TargetDay},
                   description : {TargetDesc}, threshold : Thresholds]

FindAnswer(q, dberr, potential_matches, answer) ==
    [k |-> "find_done", amount |-> q.amount, date_obj |-> q.date_obj,
     description |-> q.description, threshold |-> q.threshold,
     dberr |-> dberr, potential_matches |-> potential_matches, answer |-> answer]

\* one call of find_potential_duplicate under a configured threshold
FindMatch ==
    /\ query.k = "find"
    /\ \E dberr \in DbErrs :
         IF dberr THEN query' = FindAnswer(query, TRUE, <<>>, NoMatch)
         ELSE \E potential_matches \in
                    QueryOrders(Candidates(ledger, query.amount, query.date_obj)) :
                 query' = FindAnswer(query, FALSE, potential_matches,
                             IF potential_matches = <<>> THEN NoMatch
                             ELSE ScoreLoop(potential_matches, query.description,
                                            query.threshold, 1, NoMatch, ZeroRatio))
    /\ UNCHANGED <<ledger, run, conf, inserted_ok, discarded, faults, scenario,
                   chat_data, bot, fp>>

NextMatcher == FindMatch

SpecMatcher == InitMatcher /\ [][NextMatcher]_vars

NextResolver ==
    \/ StartUpload("r1")
    \/ RowCheck("r1") \/ RowFind("r1") \/ RowInsert("r1") \/ FinishRun("r1")
    \/ ConfirmStartOwn("c1") \/ ConfirmCheck("c1") \/ ConfirmInsert("c1")

SpecResolver == InitResolver /\ [][NextResolver]_vars

\* the bot as the only client of the API server
NextBot ==
    \/ handle_document("r1")
    \/ RowCheck("r1") \/ RowFind("r1") \/ RowInsert("r1") \/ FinishRun("r1")
    \/ handle_document_reply("r1")
    \/ handle_confirmation_callback("c1")
    \/ ConfirmCheck("c1") \/ ConfirmInsert("c1")
    \/ handle_confirmation_reply("c1")
    \/ BotRestart

SpecBot == Init /\ [][NextBot]_vars

\* the bot with a user whose sheets can leave two questions open at once:
\* a purchase, and two near duplicates of it
SessionSheets == {<<RowA>>, <<RowB, RowNear2>>}

\* handle_document, lines 36-73, for these sheets
handle_document_session(r) ==
    /\ bot.pc = "idle"
    /\ \E raw \in SessionSheets : ReceiveSheet(r, raw)
    /\ bot' = [IdleBot EXCEPT !.pc = "process_excel"]
    /\ UNCHANGED <<scenario, chat_data>>

NextSession ==
    \/ handle_document_session("r1")
    \/ RowCheck("r1") \/ RowFind("r1") \/ RowInsert("r1") \/ FinishRun("r1")
    \/ handle_document_reply("r1")
    \/ handle_confirmation_callback("c1")
    \/ ConfirmCheck("c1") \/ ConfirmInsert("c1")
    \/ handle_confirmation_reply("c1")
    \/ BotRestart

SpecSession == Init /\ [][NextSession]_vars

\* ------------------------------------------------------------ claims
Done(r) == run[r].pc = "done"
Last(q) == q[Len(q)]

\* the program's persistent stores: init_db creates the transactions table only
PersistentState == ledger

\* C1 as stated: when a run returns a batch result, inserted + pending +
\* exact duplicates + previously discarded (a class the code does not have:
\* zero) + failed equals the number of rows of the uploaded sheet.
C1_SumEqualsInputRows ==
    \A r \in Runs :
        Done(r) /\ run[r].result.status # "error" =>
            run[r].new_transactions_inserted_count
              + Len(run[r].pending_confirmation_list)
              + run[r].exact_duplicates_skipped_count
              + run[r].failed_rows_count = run[r].n_rows

\* C1 amended: the counts add up to the number of rows that are left after
\* the rows with an empty date or amount are dropped (every such row is in
\* exactly one class), the reported counts are the counters, and
\* pending_count is the length of the returned pending list.
C1_SumEqualsCleanRows ==
    \A r \in Runs :
        /\ Done(r) /\ run[r].result.status # "error" =>
              /\ run[r].result.new_count_inserted
                   + Len(run[r].result.pending_confirmation)
                   + run[r].exact_duplicates_skipped_count
                   + run[r].result.failed_rows = run[r].n_clean
              /\ run[r].processed_rows_count = run[r].n_clean
        /\ Done(r) /\ run[r].result.message = "processed" =>
              /\ run[r].result.pending_count = Len(run[r].result.pending_confirmation)
              /\ run[r].result.duplicates_skipped = run[r].exact_duplicates_skipped_count
              /\ run[r].result.new_count_inserted
                   + run[r].result.pending_count
                   + run[r].result.duplicates_skipped
                   + run[r].result.failed_rows = run[r].n_clean

C1_Witness ==
    \E r \in Runs :
        /\ Done(r)
        /\ run[r].result.message = "processed"
        /\ run[r].n_rows = 2
        /\ run[r].n_clean = 2
        /\ run[r].result.pending_count = 1
        /\ run[r].result.failed_rows = 1

\* C2 as stated: a fingerprint that was resolved with action=discard is
\* classified PreviouslyDiscarded by every later run and never becomes
\* PendingConfirmation again: no run appends to its pending list a candidate
\* whose fingerprint has been discarded.
C2_DiscardedNeverPendingAgain ==
    [][\A r \in Runs :
          Len(run'[r].pending_confirmation_list) > Len(run[r].pending_confirmation_list)
              => Last(run'[r].pending_confirmation_list).new_transaction.potential_id
                     \notin discarded]_vars

\* C3: the ledger holds at most one row per fingerprint; insert_transaction
\* answers True at most once per fingerprint, exactly for the fingerprints in
\* the ledger, and an insert that met an existing fingerprint was answered
\* False (a response, not a crash) and left that single row in place.
C3_OneRecordPerFingerprint ==
    /\ \A t1, t2 \in ledger : t1.transaction_id = t2.transaction_id => t1 = t2
    /\ \A i \in BagToSet(inserted_ok) : CopiesIn(i, inserted_ok) = 1
    /\ BagToSet(inserted_ok) = IdsOf(ledger)
    /\ \A c \in Confs :
          conf[c].integrity =>
              /\ conf[c].pc = "done"
              /\ conf[c].response.message = "insert_failed"
              /\ CopiesIn(conf[c].data.transaction_id, inserted_ok) = 1
C3_Witness ==
    \E c \in Confs :
        /\ conf[c].integrity
        /\ conf[c].data.transaction_id \in IdsOf(ledger)
        /\ Cardinality(ledger) = 1
        /\ run["r1"].new_transactions_inserted_count = 1

\* C4 as stated: when the insert of a row reports AlreadyExists, the row is
\* classified ExactDuplicate and is not counted in failedCount.
C4_RaceLoserIsDuplicate ==
    [][\A r \in Runs :
          run'[r].integrity_errors > run[r].integrity_errors =>
              /\ run'[r].failed_rows_count = run[r].failed_rows_count
              /\ run'[r].exact_duplicates_skipped_count
                     = run[r].exact_duplicates_skipped_count + 1]_vars

\* C5 as stated: for every batch, a batch with no rows included, the status is
\* confirmation_required iff the pending list is non-empty, otherwise warning
\* iff failedCount > 0, otherwise success.
StatusRule(status, pending, failed) ==
    /\ status = "confirmation_required" <=> pending # <<>>
    /\ pending = <<>> => (status = "warning" <=> failed > 0)
    /\ pending = <<>> /\ failed = 0 => status = "success"

C5_StatusDerived ==
    \A r \in Runs :
        Done(r) /\ run[r].result.status # "error" =>
            StatusRule(run[r].result.status, run[r].result.pending_confirmation,
                       run[r].result.failed_rows)

\* C5 amended: the rule holds for every batch that keeps at least one row
\* after the rows with an empty date or amount are dropped; a batch that
\* keeps none is answered warning, with no pending item and no failure.
C5_StatusDerivedNonEmpty ==
    \A r \in Runs :
        Done(r) /\ run[r].result.status # "error" =>
            IF run[r].n_clean = 0
            THEN /\ run[r].result.status = "warning"
                 /\ run[r].result.pending_confirmation = <<>>
                 /\ run[r].result.failed_rows = 0
            ELSE StatusRule(run[r].result.status, run[r].result.pending_confirmation,
                            run[r].result.failed_rows)

C5_Witness ==
    \E r \in Runs :
        /\ Done(r)
        /\ run[r].result.status = "confirmation_required"
        /\ run[r].result.failed_rows > 0
        /\ Len(run[r].result.pending_confirmation) > 0

\* C6 as stated: an insert confirmation whose fingerprint is inserted by
\* another path between its existence check and its own insert is answered
\* with the non-error AlreadyExists outcome.
C6_ConcurrentInsertNotAnError ==
    \A c \in Confs :
        conf[c].pc = "done" /\ conf[c].integrity => conf[c].response.status = "ok"

IsInsert(c) == conf[c].data \notin {NoRequest, NoBody} /\ conf[c].data.action = "insert"
IsDiscard(c) == conf[c].data \notin {NoRequest, NoBody} /\ conf[c].data.action = "discard"

C8_DiscardIsRecorded ==
    [][\A c \in Confs :
          /\ conf'[c] # conf[c]
          /\ conf'[c].response.message = "discarded"
          /\ conf'[c].data.transaction_id \notin discarded
          => PersistentState' # PersistentState]_vars

\* C9: a discard with a non-empty fingerprint is always answered ok
\* (descartada), with or without details and whether or not the fingerprint
\* is in the ledger, in the one step that validates it: it never reaches the
\* existence check or the insert, the only resolver steps that touch the ledger.
C9_DiscardAlwaysOk ==
    \A c \in Confs :
        IsDiscard(c) /\ conf[c].data.transaction_id # NoId =>
            /\ conf[c].pc = "done"
            /\ conf[c].response = Response("ok", 200, "discarded")
            /\ conf[c].data.transaction_id \in discarded

C9_Witness ==
    \E c \in Confs :
        /\ IsDiscard(c)
        /\ conf[c].data.details = NoDetails
        /\ conf[c].response.status = "ok"
        /\ ledger # {}

\* the invalid requests C10 lists; details that are not a mapping lack every key
InvalidRequest(data) ==
    \/ data = NoBody
    \/ data.transaction_id = NoId
    \/ data.action \notin {"insert", "discard"}
    \/ data.action = "insert"
         /\ data.details \in {NoDetails, PartialDetails, NonDictDetails}

\* C10: an invalid request (no fingerprint, action not insert/discard, insert
\* without details or with details lacking a key) is answered with an error
\* response in the step that validates it (400, or the handler's 500 when the
\* details are not a mapping); it never reaches the ledger steps, and no empty
\* fingerprint enters the ledger or the discard history.
C10_InvalidRejected ==
    /\ \A c \in Confs :
          conf[c].data # NoRequest /\ InvalidRequest(conf[c].data) =>
              /\ conf[c].pc = "done"
              /\ conf[c].response.status = "error"
              /\ conf[c].response.http =
                    IF Rejection(conf[c].data) = "internal" THEN 500 ELSE 400
    /\ NoId \notin discarded
    /\ NoId \notin IdsOf(ledger)

C10_Witness ==
    \E c \in Confs :
        /\ conf[c].pc = "done"
        /\ conf[c].data # NoBody
        /\ conf[c].data.action = "insert"
        /\ conf[c].data.details = PartialDetails
        /\ conf[c].response.http = 400
        /\ ledger # {}

\* the candidates of the pending set the session layer holds
PendingIds(cd) == {e.potential_id : e \in cd}

\* C11: a decision that reaches the bot for a candidate that is not in its
\* pending details (resolved before, or lost with a restart) is answered
\* "no encuentro los detalles" and the handler ends normally: no request is
\* sent to the API server, and the ledger, the answered discards and the
\* pending details stay as they were; every confirmation the bot does send
\* is for a candidate that is pending.
C11_UnknownCandidateIsNoOp ==
    [][/\ \A c \in Confs :
             conf[c].pc \in {"idle", "done"} /\ conf'[c] # conf[c] =>
                 conf'[c].data.transaction_id \in PendingIds(chat_data)
       /\ bot.pc = "idle" /\ bot' # bot /\ bot'.potential_id \notin PendingIds(chat_data)
             /\ bot'.pc # "process_excel" /\ bot' # IdleBot =>
                 /\ bot'.pc = "idle"
                 /\ bot'.reply = "not_found"
                 /\ UNCHANGED <<ledger, inserted_ok, discarded, conf, chat_data>>]_vars

C11_Witness ==
    /\ bot.pc = "idle"
    /\ bot.reply = "not_found"
    /\ bot.action = "insert"
    /\ bot.potential_id \in discarded
    /\ bot.potential_id \notin IdsOf(ledger)
    /\ ledger # {}

\* the discards a store of the program records: the discard branch of
\* handle_confirm_transaction writes to none
DiscardLog == {}

\* C12 as stated: when the bot has taken a decision for a pending candidate
\* to the API server and its handler has ended, the candidate is no longer
\* pending, and it is in the ledger after an insert decision and in the
\* discard log after a discard decision.
C12_DecidedIsTerminal ==
    bot.pc = "idle" /\ bot.reply \in {"ok", "problem", "network_error"} =>
        /\ bot.potential_id \notin PendingIds(chat_data)
        /\ bot.action = "insert" => bot.potential_id \in IdsOf(ledger)
        /\ bot.action = "discard" => bot.potential_id \in DiscardLog

\* C13 as stated: two records of the same calendar date whose descriptions
\* differ only in letter case or in whitespace (leading, trailing, runs of
\* internal whitespace) and whose amounts are equal after rounding to 2
\* decimals get the same fingerprint, and a repeated call gives the same value.
C13_FingerprintFormatInvariant ==
    fp.k = "pair_done" =>
        /\ fp.again = fp.id
        /\ (/\ ToDatetime(fp.row.date, FALSE) = ToDatetime(fp.other.date, FALSE)
            /\ JoinSplit(StrLower(fp.row.desc)) = JoinSplit(StrLower(fp.other.desc))
            /\ RoundCents(fp.row.amount.v) = RoundCents(fp.other.amount.v))
           => fp.id = fp.other_id

\* C14 as stated: the fingerprint is trim(externalId) exactly when a bank
\* identifier is supplied and non-empty; when it is absent or empty the
\* fingerprint is the content hash, and no record gets an empty fingerprint.
C14_ExternalIdOrContentHash ==
    fp.k = "bank_done" =>
        LET supplied == fp.bank_cell \notin {NoColumn, NaN}
                            /\ StrStrip(fp.bank_cell.s) # <<>>
        IN  /\ supplied => fp.id = [k |-> "bank", s |-> StrStrip(fp.bank_cell.s)]
            /\ ~supplied => fp.id = get_transaction_id(fp.row)
            /\ fp.id # [k |-> "bank", s |-> <<>>]

\* a row whose date does not parse or whose amount is not a number
BadRow(row) == ToDatetime(row.date, TRUE) = NaT \/ ~IsFloat(row.amount)

\* the step of run r that takes the next row of the sheet (line 362)
RowTaken(r) ==
    /\ run[r].pc = "loop"
    /\ run[r].df # <<>>
    /\ run'[r].processed_rows_count = run[r].processed_rows_count + 1

\* the row taken is classified Failed and nothing else, and the loop goes on
FailedOnly(r) ==
    /\ run'[r].failed_rows_count = run[r].failed_rows_count + 1
    /\ run'[r].new_transactions_inserted_count = run[r].new_transactions_inserted_count
    /\ run'[r].exact_duplicates_skipped_count = run[r].exact_duplicates_skipped_count
    /\ run'[r].pending_confirmation_list = run[r].pending_confirmation_list
    /\ run'[r].pc = "loop"
    /\ run'[r].df = Tail(run[r].df)
    /\ run'[r].cur = NoCur
    /\ ledger' = ledger

\* C15 as stated: get_transaction_id fails (None) for every row whose date
\* does not parse or whose amount is not a number, and reconcile classifies
\* such a row Failed, neither inserts it nor makes it pending, and goes on.
C15_InvalidRecordFromFingerprint ==
    /\ \A row \in ScenarioRows : BadRow(row) => get_transaction_id(row) = NoId
    /\ [][\A r \in Runs :
             RowTaken(r) /\ BadRow(Head(run[r].df)) => FailedOnly(r)]_vars

\* C15 amended: get_transaction_id fails (None) exactly for the rows whose
\* amount is not a number (a date that does not parse is hashed as it is);
\* reconcile rejects a row with a date that does not parse by its own date
\* test before it makes the fingerprint, so every row with such a date or
\* amount is classified Failed, is neither inserted nor made pending nor
\* given an id, and the loop goes on with the next row.
C15_InvalidRowFailsInReconcile ==
    /\ \A row \in ScenarioRows : get_transaction_id(row) = NoId <=> ~IsFloat(row.amount)
    /\ \A row \in ScenarioRows : BadRow(row) => ~RowParses(row) \/ get_transaction_id(row) = NoId
    /\ [][\A r \in Runs :
             RowTaken(r) /\ BadRow(Head(run[r].df)) =>
                 FailedOnly(r) /\ inserted_ok' = inserted_ok]_vars

C15_Witness ==
    /\ ~faults
    /\ scenario # NoScenario
    /\ scenario.sheet = <<RowBadDate, RowFar10, RowBadAmount>>
    /\ Done("r1")
    /\ run["r1"].result.failed_rows = 2
    /\ run["r1"].result.new_count_inserted = 1

\* the rows of the cleaned sheet that run r has not taken yet
RowsLeft(r) ==
    Len(run[r].df) - (IF run[r].pc \in {"find", "insert"} THEN 1 ELSE 0)

\* C16: a row that fails when it is taken (it does not parse, it gets no id,
\* or the ledger lookup for its id raises) adds one to the failed count and
\* changes nothing else: the ledger, the other counts and the rows after it
\* are as before, and the loop goes on with the next row. No row of the
\* cleaned sheet is skipped: the rows taken plus the rows left are always
\* the rows of the sheet, and a run that went through the loop ends with all
\* of them taken and a result that carries every count.
C16_RowErrorIsolated ==
    /\ [][\A r \in Runs :
             RowTaken(r) /\ run'[r].failed_rows_count # run[r].failed_rows_count
                 => FailedOnly(r) /\ run'[r].n_clean = run[r].n_clean]_vars
    /\ [](\A r \in Runs :
             /\ run[r].pc \in {"loop", "find", "insert"}
                    => run[r].processed_rows_count + RowsLeft(r) = run[r].n_clean
             /\ Done(r) /\ run[r].result.message = "processed"
                    => /\ run[r].processed_rows_count = run[r].n_clean
                       /\ run[r].result.failed_rows = run[r].failed_rows_count
                       /\ run[r].result.new_count_inserted
                              = run[r].new_transactions_inserted_count
                       /\ run[r].result.duplicates_skipped
                              = run[r].exact_duplicates_skipped_count
                       /\ run[r].result.pending_count
                              = Len(run[r].pending_confirmation_list)
                       /\ run[r].result.status
                              \in {"success", "warning", "confirmation_required"})

\* a row failed and the row after it was inserted; the result reports both
C16_Witness ==
    /\ Done("r1")
    /\ run["r1"].result.message = "processed"
    /\ run["r1"].n_clean = 2
    /\ run["r1"].result.failed_rows = 1
    /\ run["r1"].result.new_count_inserted = 1
    /\ run["r1"].inserted_transactions_for_email # <<>>
    /\ scenario # NoScenario
    /\ Head(scenario.sheet) = RowBadDate
    /\ ledger = scenario.ledger \cup LedgerOf({scenario.sheet[2]})
    /\ ledger # scenario.ledger

\* run r has returned because init_db raised (lines 312-315)
InitFailed(r) == Done(r) /\ run[r].result.message = "db_init"

\* C17: when init_db raises at the start of process_excel_file, the call
\* returns one error result (status error, zero inserted, zero failed rows,
\* empty pending list) in that same step; no row of the sheet is taken, the
\* ledger is what it was before the call and no notification e-mail is sent.
C17_InitFailureAbortsBatch ==
    /\ [][\A r \in Runs :
             run'[r] # run[r] /\ run'[r].pc = "done"
               /\ run'[r].result.message = "db_init"
                 => /\ run[r].pc \in {"idle", "done"}
                    /\ ledger' = ledger
                    /\ inserted_ok' = inserted_ok]_vars
    /\ [](\A r \in Runs :
             InitFailed(r)
                 => /\ run[r].result = [status |-> "error", message |-> "db_init",
                                        new_count_inserted |-> 0, failed_rows |-> 0,
                                        pending_confirmation |-> <<>>]
                    /\ run[r].processed_rows_count = 0
                    /\ run[r].new_transactions_inserted_count = 0
                    /\ run[r].exact_duplicates_skipped_count = 0
                    /\ run[r].failed_rows_count = 0
                    /\ run[r].pending_confirmation_list = <<>>
                    /\ run[r].inserted_transactions_for_email = <<>>
                    /\ run[r].emails_sent = 0
                    /\ run[r].df = <<>>)

\* a sheet of two rows was uploaded to a ledger that holds a record, and
\* init_db raised
C17_Witness ==
    /\ InitFailed("r1")
    /\ run["r1"].n_rows = 2
    /\ ledger # {}

\* the step of run r that asks the matcher about the row in hand
Matched(r) == run[r].pc = "find" /\ run'[r] # run[r]

\* the ledger record t has the description of cur after lowercasing and
\* whitespace collapsing
SameNormalDesc(cur, t) ==
    JoinSplit(StrLower(cur.desc)) = JoinSplit(StrLower(t.description))

DaysApart(cur, t) == Abs(t.transaction_date - cur.fecha.d)

\* the step made the row in hand pending against ledger record t
PendingAgainst(r, t) ==
    /\ run'[r].pending_confirmation_list
           = Append(run[r].pending_confirmation_list, PendingItem(run[r].cur, t))
    /\ run'[r].pc = "loop"
    /\ run'[r].new_transactions_inserted_count = run[r].new_transactions_inserted_count
    /\ ledger' = ledger

\* C18: when the ledger query works, a row with the amount of a ledger
\* record to the cent, dated 2 days from it, with the record's description
\* after lowercasing and whitespace collapsing, is made pending against that
\* record (it is not inserted and the ledger stays as it is); a row is never
\* made pending against a record dated 10 days, or any distance beyond
\* DATE_WINDOW_DAYS, from it.
C18_NearMatchPending ==
    [][\A r \in Runs : Matched(r) =>
          \A t \in ledger :
             /\ ~faults /\ t.amount = run[r].cur.monto
                  /\ SameNormalDesc(run[r].cur, t)
                  /\ DaysApart(run[r].cur, t) = 2
                    => PendingAgainst(r, t)
             /\ DaysApart(run[r].cur, t) = 10 => ~PendingAgainst(r, t)
             /\ DaysApart(run[r].cur, t) > DATE_WINDOW_DAYS => ~PendingAgainst(r, t)]_vars

\* the ledger held row A; the sheet brought the same purchase 2 days later
\* and again 10 days later: the first is pending against A, the second is
\* inserted
C18_Witness ==
    /\ ~faults
    /\ scenario # NoScenario
    /\ scenario.ledger = LedgerOf({RowA})
    /\ scenario.sheet = <<RowNear2, RowFar10>>
    /\ Done("r1")
    /\ Len(run["r1"].result.pending_confirmation) = 1
    /\ run["r1"].result.pending_confirmation[1].existing_match.id
           = get_transaction_id(RowA)
    /\ run["r1"].result.pending_confirmation[1].new_transaction.potential_id
           = get_transaction_id(RowNear2)
    /\ ledger = LedgerOf({RowA, RowFar10})

\* the row has the fingerprint of a record of led
ExactIn(row, led) ==
    RowParses(row) /\ get_transaction_id(row) \in IdsOf(led)

\* record t of led is a near match of the row: amount within the tolerance,
\* date within the window, description at least Threshold similar
NearOf(row, t) ==
    /\ Abs(t.amount - ParseRow(row).monto) <= amount_margin
    /\ DaysApart(ParseRow(row), t) <= DATE_WINDOW_DAYS
    /\ RatioGE(Similarity(ParseRow(row).desc, t), Threshold)

\* the row is new to led: no exact and no near match
NewTo(row, led) ==
    /\ RowParses(row)
    /\ get_transaction_id(row) # NoId
    /\ get_transaction_id(row) \notin IdsOf(led)
    /\ \A t \in led : ~NearOf(row, t)

\* the row near-matches a record of led other than the one with id other:
\* same amount, 1 day off, description 90% similar
NearMatch90(row, led, other) ==
    /\ RowParses(row)
    /\ get_transaction_id(row) # NoId
    /\ get_transaction_id(row) \notin IdsOf(led)
    /\ \E t \in led :
          /\ t.transaction_id # other
          /\ t.amount = ParseRow(row).monto
          /\ DaysApart(ParseRow(row), t) = 1
          /\ Similarity(ParseRow(row).desc, t).num * 10
                 = 9 * Similarity(ParseRow(row).desc, t).den

\* the three rows of the sheet, in the order a, b, c of their positions,
\* are: new, exact duplicate, near match of a different record
BatchABC(sheet, led, a, b, c) ==
    /\ Len(sheet) = 3
    /\ {a, b, c} = 1..3
    /\ NewTo(sheet[a], led)
    /\ ExactIn(sheet[b], led)
    /\ NearMatch90(sheet[c], led, get_transaction_id(sheet[b]))

\* C19: a sheet of 3 rows, in any order, where one row is new (no exact and
\* no near match in the ledger), one has the fingerprint of a ledger record
\* and one near-matches a different ledger record (same amount, 1 day off,
\* description 90% similar), processed with a working store, returns
\* inserted 1, exact duplicates 1, pending 1, failed 0 and status
\* confirmation_required, and the ledger is the ledger before the run plus
\* the new row.
C19_BatchOfThree ==
    scenario # NoScenario /\ ~faults /\ Done("r1") =>
        \A a, b, c \in 1..3 :
            BatchABC(scenario.sheet, scenario.ledger, a, b, c) =>
                /\ run["r1"].result.status = "confirmation_required"
                /\ run["r1"].result.new_count_inserted = 1
                /\ run["r1"].result.duplicates_skipped = 1
                /\ run["r1"].result.pending_count = 1
                /\ Len(run["r1"].result.pending_confirmation) = 1
                /\ run["r1"].result.failed_rows = 0
                /\ ledger = scenario.ledger \cup LedgerOf({scenario.sheet[a]})
                /\ Cardinality(ledger) = Cardinality(scenario.ledger) + 1

\* the near match comes first, then the exact duplicate, then the new row
C19_Witness ==
    /\ scenario # NoScenario
    /\ ~faults
    /\ Done("r1")
    /\ scenario.sheet = <<RowC, RowA, RowFar10>>
    /\ BatchABC(scenario.sheet, scenario.ledger, 3, 2, 1)
    /\ scenario.ledger = LedgerOf({RowA, RowE2})
    /\ run["r1"].result.new_count_inserted = 1
    /\ run["r1"].result.pending_confirmation[1].existing_match.id
           = get_transaction_id(RowE2)
    /\ ledger = LedgerOf({RowA, RowE2, RowFar10})

\* record t of the ledger is a near match of the row that another record
\* of the ledger, with the row's fingerprint, stands for
HasNearMatch(row) ==
    \E t \in ledger :
        t.transaction_id # get_transaction_id(row) /\ NearOf(row, t)

\* C20: a row whose fingerprint is in the ledger when the row is taken is
\* never sent to the matcher, never made pending and never inserted, also
\* when the ledger holds a near match for it, and the ledger is unchanged by
\* the step; when the lookup answers, the row is counted as an exact
\* duplicate and as nothing else (a lookup that raises counts it failed).
C20_ExistingIsExactDuplicate ==
    [][\A r \in Runs :
          RowTaken(r) /\ ExactIn(Head(run[r].df), ledger) =>
             /\ run'[r].pc = "loop"
             /\ run'[r].df = Tail(run[r].df)
             /\ run'[r].cur = NoCur
             /\ run'[r].pending_confirmation_list = run[r].pending_confirmation_list
             /\ run'[r].new_transactions_inserted_count
                    = run[r].new_transactions_inserted_count
             /\ run'[r].inserted_transactions_for_email
                    = run[r].inserted_transactions_for_email
             /\ ledger' = ledger
             /\ inserted_ok' = inserted_ok
             /\ \/ /\ run'[r].exact_duplicates_skipped_count
                          = run[r].exact_duplicates_skipped_count + 1
                   /\ run'[r].failed_rows_count = run[r].failed_rows_count
                \/ /\ faults
                   /\ run'[r].exact_duplicates_skipped_count
                          = run[r].exact_duplicates_skipped_count
                   /\ run'[r].failed_rows_count = run[r].failed_rows_count + 1]_vars

\* row A came again while the ledger held A and a near match of A
C20_Witness ==
    /\ scenario # NoScenario
    /\ ~faults
    /\ scenario.ledger = LedgerOf({RowA, RowNear2})
    /\ scenario.sheet = <<RowA>>
    /\ HasNearMatch(RowA)
    /\ Done("r1")
    /\ run["r1"].result.duplicates_skipped = 1
    /\ run["r1"].result.pending_count = 0
    /\ run["r1"].result.new_count_inserted = 0
    /\ ledger = scenario.ledger

\* what find_potential_duplicate can answer for the row run r has in hand
MatcherAnswers(r) ==
    UNION {find_potential_duplicate(ledger, run[r].cur.monto, run[r].cur.fecha.d,
                                    run[r].cur.desc, dberr) : dberr \in DbErrs}

\* C21: in the step that asks the matcher about a row, an answer that is a
\* match makes the row pending: the pair of the row and the matched record,
\* a record of the ledger, is appended to the pending list, the row is
\* neither inserted nor counted failed, and the ledger is unchanged; only
\* the answer "no match" sends the row on to the insert.
C21_MatchIsPending ==
    [][\A r \in Runs : Matched(r) =>
          /\ ledger' = ledger
          /\ \/ \E t \in MatcherAnswers(r) \ {NoMatch} :
                   /\ t \in ledger
                   /\ run'[r].pending_confirmation_list
                          = Append(run[r].pending_confirmation_list,
                                   [new_transaction |->
                                       [potential_id |-> run[r].cur.tx_id,
                                        date_db |-> run[r].cur.fecha.d,
                                        desc |-> run[r].cur.desc,
                                        amount |-> run[r].cur.monto],
                                    existing_match |->
                                       [id |-> t.transaction_id,
                                        date |-> t.transaction_date,
                                        desc |-> t.description,
                                        amount |-> t.amount]])
                   /\ run'[r].pc = "loop"
                   /\ run'[r].new_transactions_inserted_count
                          = run[r].new_transactions_inserted_count
                   /\ run'[r].failed_rows_count = run[r].failed_rows_count
             \/ /\ NoMatch \in MatcherAnswers(r)
                /\ run'[r].pc = "insert"
                /\ run'[r].pending_confirmation_list
                       = run[r].pending_confirmation_list]_vars

\* the step of confirmation c that calls insert_transaction
InsertAttempt(c) == conf[c].pc = "insert" /\ conf'[c] # conf[c]

\* C22: the insert of an insert confirmation with complete details, for a
\* fingerprint that is not in the ledger, made with a working store, adds
\* exactly one record: its key is the fingerprint of the request and its
\* date, description and amount are those of the details as they were sent;
\* every other record stays as it was and the answer is ok, inserted. With
\* a failing store the ledger is unchanged and the answer is an error.
C22_ConfirmedInsertAddsOneRecord ==
    [][\A c \in Confs :
          InsertAttempt(c) /\ conf[c].data.transaction_id \notin IdsOf(ledger) =>
             LET data == conf[c].data
                 rec == [transaction_id |-> data.transaction_id,
                         transaction_date |-> data.details.date_db.d,
                         date_iso |-> (data.details.date_db.k = "iso"),
                         description |-> data.details.desc,
                         amount |-> data.details.amount]
             IN  \/ /\ ledger' = ledger \cup {rec}
                    /\ Cardinality(ledger') = Cardinality(ledger) + 1
                    /\ conf'[c].pc = "done"
                    /\ conf'[c].response = Response("ok", 200, "inserted")
                 \/ /\ faults
                    /\ ledger' = ledger
                    /\ conf'[c].pc = "done"
                    /\ conf'[c].response.http = 500]_vars

\* with a working store, a caller's own details (the description of another
\* purchase) were inserted next to an earlier record
C22_Witness ==
    /\ ~faults
    /\ conf["c1"].pc = "done"
    /\ conf["c1"].response = Response("ok", 200, "inserted")
    /\ conf["c1"].data = Request(get_transaction_id(RowA), "insert", DetailsOf(RowB))
    /\ TxDataOfDetails(get_transaction_id(RowA), DetailsOf(RowB)) \in ledger
    /\ Cardinality(ledger) = 2

\* C23: no step of an upload or of a confirmation deletes a ledger record
\* or changes one: every record of the ledger before a step is in the
\* ledger after it, and the ledger never holds two records with one key,
\* also when an insert confirmation brings other details for a key that is
\* already stored.
C23_LedgerOnlyGrows ==
    /\ [][ledger \subseteq ledger']_vars
    /\ [](\A t, u \in ledger : t.transaction_id = u.transaction_id => t = u)

\* an insert confirmation that brought the details of another purchase for
\* a stored key was answered, and the stored record is as it was
C23_Witness ==
    /\ conf["c1"].pc = "done"
    /\ conf["c1"].data = Request(get_transaction_id(RowA), "insert", DetailsOf(RowB))
    /\ conf["c1"].response = Response("ok", 200, "already_existed")
    /\ TxDataOfDetails(get_transaction_id(RowA), DetailsOf(RowA)) \in ledger

\* the entry of the notification list made from the parsed row cur
EmailEntry(cur) == [fecha |-> cur.fecha.d, descripcion |-> cur.desc, monto |-> cur.monto]

\* the entry e of a notification list is the record t
Persisted(e, t) ==
    /\ t.transaction_date = e.fecha
    /\ t.date_iso
    /\ t.description = e.descripcion
    /\ t.amount = e.monto

\* C24: the notification list of a batch grows only in the step that
\* inserts a row, by the entry of that row, together with the count of
\* insertions and with the record in the ledger; a row classified exact
\* duplicate, pending or failed leaves the list as it is. The list always
\* has as many entries as the batch counted insertions and each entry is a
\* stored record. The sink is called when the row loop has ended, once when
\* the list is not empty and not at all when it is empty.
C24_NotifiesInsertedRowsOnce ==
    /\ [][\A r \in Runs :
            LET s == run[r]
                t == run'[r]
            IN  /\ (s.pc = "insert" /\ t # s) =>
                      \/ /\ t.inserted_transactions_for_email =
                               Append(s.inserted_transactions_for_email, EmailEntry(s.cur))
                         /\ t.new_transactions_inserted_count =
                               s.new_transactions_inserted_count + 1
                         /\ TxData(s.cur.tx_id, s.cur.fecha.d, s.cur.desc, s.cur.monto)
                               \in ledger' \ ledger
                         /\ t.emails_sent = 0
                      \/ /\ t.inserted_transactions_for_email =
                               s.inserted_transactions_for_email
                         /\ t.failed_rows_count = s.failed_rows_count + 1
                         /\ ledger' = ledger
                /\ (s.pc \in {"loop", "find"} /\ t # s) =>
                      /\ t.inserted_transactions_for_email =
                            s.inserted_transactions_for_email
                      /\ t.new_transactions_inserted_count =
                            s.new_transactions_inserted_count
                /\ (s.pc = "loop" /\ t.pc = "done") =>
                      /\ s.df = <<>>
                      /\ s.emails_sent = 0
                      /\ t.emails_sent =
                            IF s.inserted_transactions_for_email = <<>> THEN 0 ELSE 1
                /\ (s.pc # "loop" /\ t # s) => t.emails_sent = 0]_vars
    /\ [](\A r \in Runs :
            /\ Len(run[r].inserted_transactions_for_email) =
                  run[r].new_transactions_inserted_count
            /\ \A i \in 1..Len(run[r].inserted_transactions_for_email) :
                  \E t \in ledger :
                     Persisted(run[r].inserted_transactions_for_email[i], t)
            /\ run[r].emails_sent \in {0, 1}
            /\ run[r].emails_sent = 1 =>
                  /\ run[r].pc = "done"
                  /\ run[r].inserted_transactions_for_email # <<>>)

\* a batch of an inserted row and a pending row ended: one notification,
\* listing the inserted row only
C24_Witness ==
    /\ run["r1"].pc = "done"
    /\ run["r1"].emails_sent = 1
    /\ run["r1"].inserted_transactions_for_email = <<EmailEntry(ParseRow(RowA))>>
    /\ Len(run["r1"].pending_confirmation_list) = 1
    /\ run["r1"].processed_rows_count = 2

\* row t is listed before row u rightly: its date is later, or it is of
\* the same date and was not admitted earlier
MoreRecent(t, u) ==
    \/ t.transaction_date > u.transaction_date
    \/ /\ t.transaction_date = u.transaction_date
       /\ t.processed_at >= u.processed_at

\* C25: an answered listing holds at most count rows of the table, each
\* once, none left out while there is room, later dates first and, within
\* one date, later admissions first; the table is as it was; count is the
\* number asked when it is a number from 1 to 100, and 5 otherwise.
C25_ListRecentOrdered ==
    (query.k = "recent_done" /\ query.http = 200) =>
        LET rows == query.transactions
            asked == ParseInt(query.arg.s)
        IN  /\ query.count = IF query.arg.k = "text" /\ asked.ok
                                /\ asked.v \in 1..100
                             THEN asked.v ELSE 5
            /\ Len(rows) = Min(Cardinality(query.table), query.count)
            /\ \A i \in 1..Len(rows) : rows[i] \in query.table
            /\ \A i, j \in 1..Len(rows) : i < j =>
                  /\ rows[i] # rows[j]
                  /\ MoreRecent(rows[i], rows[j])
            /\ \A u \in query.table :
                  (\A i \in 1..Len(rows) : rows[i] # u) =>
                      \A i \in 1..Len(rows) : MoreRecent(rows[i], u)
            /\ ledger = {}

\* an answered call of find_potential_duplicate whose queries worked
Found == query.k = "find_done" /\ ~query.dberr
\* the rows the call scored, their scores and their distance in days
Scored == {query.potential_matches[i] : i \in 1..Len(query.potential_matches)}
Score(t) == Similarity(query.description, t)
DaysFrom(t) == Abs(t.transaction_date - query.date_obj)
Reaches(t) == RatioGE(Score(t), query.threshold)

\* C26: a call whose query gave no row answers none; a call that scored
\* rows answers one of the rows of the highest score when that score is at
\* least the threshold, and none when no row reaches the threshold; for
\* the thresholds 0, 0.6 and 1.
C26_HighestAboveThreshold ==
    Found =>
        /\ Scored = {} => query.answer = NoMatch
        /\ (Scored # {} /\ \E t \in Scored : Reaches(t)) =>
              /\ query.answer \in Scored
              /\ \A u \in Scored : RatioGE(Score(query.answer), Score(u))
        /\ (Scored # {} /\ \A t \in Scored : ~Reaches(t)) => query.answer = NoMatch

\* C27: when more rows than the limit are inside the tolerance and the
\* window, the rows scored are the nearest to the target date, nearest
\* first: no row left out is nearer than a row scored.
C27_ClosestKept ==
    (Found /\ Cardinality(Candidates(ledger, query.amount, query.date_obj)) > QUERY_LIMIT) =>
        /\ Len(query.potential_matches) = QUERY_LIMIT
        /\ \A t \in Scored :
              \A u \in Candidates(ledger, query.amount, query.date_obj) \ Scored :
                  DaysFrom(t) <= DaysFrom(u)
        /\ \A i, j \in 1..Len(query.potential_matches) :
              i < j => DaysFrom(query.potential_matches[i])
                          <= DaysFrom(query.potential_matches[j])

\* the scored rows of the highest score
TopScored == {t \in Scored : \A u \in Scored : RatioGE(Score(t), Score(u))}

\* C28: when two or more scored rows share the highest score and it is at
\* least the threshold, the answer is one of them and none of them is
\* nearer to the target date.
C28_TieToNearest ==
    (Found /\ Cardinality(TopScored) >= 2 /\ \E t \in TopScored : Reaches(t)) =>
        /\ query.answer \in TopScored
        /\ \A u \in TopScored : DaysFrom(query.answer) <= DaysFrom(u)

\* C29: a row answered by the matcher is a row of the ledger, at most
\* DATE_WINDOW_DAYS days from the target date and at most 0.01 from the
\* target amount; and the call leaves the ledger as it is.
C29_AnswerInsideWindow ==
    /\ [](query.k = "find_done" /\ query.answer # NoMatch =>
            /\ query.answer \in ledger
            /\ DaysFrom(query.answer) <= DATE_WINDOW_DAYS
            /\ Abs(query.answer.amount - query.amount) <= amount_margin)
    /\ [][query.k = "find" /\ query' # query => ledger' = ledger]_vars

\* the matcher answered the row at the edge of the window from a ledger
\* that also holds an equal purchase a day outside the window and one two
\* cents away
C29_Witness ==
    /\ Found
    /\ query.answer # NoMatch
    /\ DaysFrom(query.answer) = DATE_WINDOW_DAYS
    /\ \E t \in ledger : /\ Abs(t.transaction_date - query.date_obj) = DATE_WINDOW_DAYS + 1
                         /\ t.amount = query.amount
                         /\ RatioGE(Similarity(query.description, t), query.threshold)
    /\ \E t \in ledger : /\ t.transaction_date = query.date_obj
                         /\ Abs(t.amount - query.amount) = amount_margin + 1
                         /\ RatioGE(Similarity(query.description, t), query.threshold)

\* the records of the ledger that batch r inserted itself
OwnInserted(r) ==
    {u \in ledger :
        \E i \in 1..Len(run[r].inserted_transactions_for_email) :
            Persisted(run[r].inserted_transactions_for_email[i], u)}

\* record u is a near match of the row batch r is looking at
NearCur(r, u) ==
    /\ u \in Candidates(ledger, run[r].cur.monto, run[r].cur.fecha.d)
    /\ RatioGE(Similarity(run[r].cur.desc, u), Threshold)

\* C30: a batch takes its rows in the order of the sheet, one at a time,
\* and each row is checked against the ledger as the earlier rows of the
\* same batch left it: with a working store, a row whose fingerprint an
\* earlier row of the batch inserted is counted as an exact duplicate, a
\* row that is a near match of a record an earlier row of the batch
\* inserted is made pending against that record, and no fingerprint is
\* ever inserted twice.
C30_RowsSeeEarlierInsertions ==
    /\ [][\A r \in Runs :
            LET s == run[r]
                t == run'[r]
            IN  /\ (s.pc \in {"loop", "find", "insert"} /\ t # s /\ t.pc # "done") =>
                      /\ t.df = s.df \/ t.df = Tail(s.df)
                      /\ t.df = s.df <=> t.pc \in {"find", "insert"}
                      /\ t.processed_rows_count =
                            s.processed_rows_count + (IF s.pc = "loop" THEN 1 ELSE 0)
                      /\ t.pc \in {"find", "insert"} => t.cur = ParseRow(Head(s.df))
                /\ (/\ ~faults
                    /\ s.pc = "loop" /\ s.df # <<>> /\ t # s
                    /\ \E u \in OwnInserted(r) :
                          u.transaction_id = get_transaction_id(Head(s.df))) =>
                      /\ t.exact_duplicates_skipped_count =
                            s.exact_duplicates_skipped_count + 1
                      /\ t.pc = "loop"
                      /\ t.df = Tail(s.df)
                      /\ t.pending_confirmation_list = s.pending_confirmation_list
                      /\ t.failed_rows_count = s.failed_rows_count
                      /\ ledger' = ledger
                /\ (/\ ~faults
                    /\ s.pc = "find" /\ t # s
                    /\ \E u \in OwnInserted(r) : NearCur(r, u)) =>
                      /\ \E u \in OwnInserted(r) :
                            /\ NearCur(r, u)
                            /\ t.pending_confirmation_list =
                                  Append(s.pending_confirmation_list,
                                         PendingItem(s.cur, u))
                      /\ t.pc = "loop"
                      /\ t.df = Tail(s.df)
                      /\ t.new_transactions_inserted_count =
                            s.new_transactions_inserted_count
                      /\ t.failed_rows_count = s.failed_rows_count
                      /\ ledger' = ledger]_vars
    /\ [](\A id \in BagToSet(inserted_ok) : CopiesIn(id, inserted_ok) = 1)

\* a sheet of three rows read from an empty ledger with a working store:
\* the first row was inserted, its repetition was an exact duplicate and
\* the near match of the first row is pending against it
C30_Witness ==
    /\ ~faults
    /\ run["r1"].pc = "done"
    /\ run["r1"].processed_rows_count = 3
    /\ run["r1"].new_transactions_inserted_count = 1
    /\ run["r1"].exact_duplicates_skipped_count = 1
    /\ run["r1"].pending_confirmation_list =
          <<PendingItem(ParseRow(RowB),
                        TxData(get_transaction_id(RowA), ParseRow(RowA).fecha.d,
                               ParseRow(RowA).desc, ParseRow(RowA).monto))>>
    /\ ledger = {TxData(get_transaction_id(RowA), ParseRow(RowA).fecha.d,
                        ParseRow(RowA).desc, ParseRow(RowA).monto)}

\* C31: an insert confirmation for a fingerprint that is in the ledger when
\* the call starts, sent without details or with details that lack a key,
\* is answered ok as already inserted, and not as an invalid request: the
\* existence check comes before the validation of the details.
C31_ExistenceBeforeDetails ==
    \A c \in Confs :
        (/\ conf[c].pc = "done"
         /\ IsInsert(c)
         /\ conf[c].data.transaction_id # NoId
         /\ conf[c].existed_at_start
         /\ conf[c].data.details \in {NoDetails, PartialDetails}) =>
            /\ conf[c].response.status = "ok"
            /\ conf[c].response.http = 200

\* C32: a batch that entered its row loop returns: it reaches the end with
\* a result built from its counters after it took every row of the cleaned
\* sheet once; whatever a row ends as (failed, exact duplicate, pending,
\* inserted, insert refused), the loop goes on with the next row, and the
\* batch returns only from the loop with no row left.
C32_BatchRunsToCompletion ==
    /\ \A r \in {"r1"} :
          (run[r].pc \in {"loop", "find", "insert"}) ~>
              (/\ Done(r)
               /\ run[r].result.message = "processed"
               /\ run[r].processed_rows_count = run[r].n_clean
               /\ run[r].new_transactions_inserted_count
                     + Len(run[r].pending_confirmation_list)
                     + run[r].exact_duplicates_skipped_count
                     + run[r].failed_rows_count = run[r].n_clean)
    /\ [][\A r \in Runs :
            LET s == run[r]
                t == run'[r]
            IN  /\ (s.pc \in {"loop", "find", "insert"} /\ t.pc = "done") =>
                      s.pc = "loop" /\ s.df = <<>>
                /\ (s.pc \in {"loop", "find", "insert"} /\ t # s /\ t.pc # "done") =>
                      /\ Len(t.df) >= Len(s.df) - 1
                      /\ t.processed_rows_count + Len(t.df)
                            - (IF t.pc \in {"find", "insert"} THEN 1 ELSE 0)
                            = s.n_clean]_vars

\* a batch of three rows returned after an insertion, an exact duplicate
\* and a failed row
C32_Witness ==
    /\ Done("r1")
    /\ run["r1"].result.message = "processed"
    /\ run["r1"].processed_rows_count = 3
    /\ run["r1"].new_transactions_inserted_count = 1
    /\ run["r1"].exact_duplicates_skipped_count = 1
    /\ run["r1"].failed_rows_count = 1

\* C33: the step that searches a near duplicate for a row never counts the
\* row failed and never writes: the row either goes on to the insert as it
\* is, or is made pending against a near match. A row that has a near match
\* in the ledger goes on to the insert only when the store is failing: the
\* failed search answered "no match" and the row is treated as new.
C33_SearchErrorMeansNoMatch ==
    [][\A r \in Runs :
          LET s == run[r]
              t == run'[r]
          IN  (s.pc = "find" /\ t # s) =>
                 /\ t.failed_rows_count = s.failed_rows_count
                 /\ ledger' = ledger
                 /\ \/ /\ t = [s EXCEPT !.pc = "insert"]
                       /\ (\E u \in ledger : NearCur(r, u)) => faults
                    \/ /\ t.pc = "loop"
                       /\ \E u \in ledger :
                             /\ NearCur(r, u)
                             /\ t.pending_confirmation_list =
                                   Append(s.pending_confirmation_list,
                                          PendingItem(s.cur, u))]_vars

\* a row was inserted although the ledger held a near match of it: its
\* search had failed, and the batch counted it inserted, not failed
C33_Witness ==
    /\ faults
    /\ Done("r1")
    /\ run["r1"].processed_rows_count = 2
    /\ run["r1"].new_transactions_inserted_count = 2
    /\ run["r1"].failed_rows_count = 0
    /\ run["r1"].pending_confirmation_list = <<>>
    /\ ledger = LedgerOf({RowA, RowB})

\* C34: when a batch inserts a row by itself, with a working store, the
\* ledger of that moment holds no record that find_potential_duplicate
\* would answer for the row, whatever other requests wrote meanwhile.
C34_NoNearMatchAtInsertion ==
    [][\A r \in Runs :
          LET s == run[r]
              t == run'[r]
          IN  (/\ ~faults
               /\ s.pc = "insert"
               /\ t.new_transactions_inserted_count =
                     s.new_transactions_inserted_count + 1) =>
                 ~ \E u \in ledger : NearCur(r, u)]_vars

\* C35: a sheet uploaded again right after its upload returned, with a
\* working store and nobody else writing, inserts nothing: the ledger stays
\* as the first upload left it, and when the second upload returns, the rows
\* the first inserted are counted exact duplicates, the same rows are pending
\* again and as many rows failed.
C35_RerunInsertsNothing ==
    (scenario.k = "rerun" /\ ~faults) =>
        LET first == run["r1"]
            again == run["r2"]
        IN  /\ ledger = scenario.ledger
            /\ again.new_transactions_inserted_count = 0
            /\ Done("r2") =>
                 /\ again.exact_duplicates_skipped_count =
                       first.exact_duplicates_skipped_count
                       + first.new_transactions_inserted_count
                 /\ Len(again.pending_confirmation_list) =
                       Len(first.pending_confirmation_list)
                 /\ \A i \in 1..Len(first.pending_confirmation_list) :
                       again.pending_confirmation_list[i].new_transaction =
                          first.pending_confirmation_list[i].new_transaction
                 /\ again.failed_rows_count = first.failed_rows_count

\* C36: every record a batch inserted under a content fingerprint holds the
\* date, the description (up to case) and the amount the fingerprint was
\* made from, and two stored records of one fingerprint hold the same three.
C36_FingerprintOfStoredValues ==
    /\ \A t \in ledger :
          t.transaction_id.k = "md5" =>
             /\ t.transaction_id.date = Day(t.transaction_date)
             /\ t.transaction_id.desc = StrLower(t.description)
             /\ t.transaction_id.amount = t.amount
    /\ \A t, u \in ledger :
          t.transaction_id = u.transaction_id =>
             /\ t.transaction_date = u.transaction_date
             /\ StrLower(t.description) = StrLower(u.description)
             /\ t.amount = u.amount

\* C37: the handlers of the bot take an entry out of the pending details
\* only in the step that reads an "ok" answer of /api/confirm_transaction,
\* and then exactly the entry of the candidate that was decided; when the
\* exchange fails, or the answer is an HTTP error or not "ok", the pending
\* details stay as they were. (A restart of the bot process, which loses
\* the whole of chat_data, is not a step of the handlers.)
C37_DeletedOnlyOnOk ==
    [][(bot' # IdleBot \/ chat_data' # {}) =>
          LET gone == PendingIds(chat_data) \ PendingIds(chat_data')
              response == conf["c1"].response
              answered == bot.pc = "confirm_transaction" /\ bot'.pc = "idle"
          IN  /\ gone \subseteq {bot.potential_id}
              /\ gone # {} => answered /\ bot'.reply = "ok"
              /\ answered =>
                   /\ bot'.reply = "ok" =>
                        /\ response.status = "ok" /\ response.http < 400
                        /\ chat_data' = {e \in chat_data :
                                            e.potential_id # bot.potential_id}
                   /\ bot'.reply # "ok" => chat_data' = chat_data
                   /\ (response.status # "ok" \/ response.http >= 400) =>
                        bot'.reply # "ok"]_vars

\* an "ok" took the decided candidate out while the other question stays open
C37_Witness ==
    /\ bot.pc = "idle"
    /\ bot.reply = "ok"
    /\ bot.potential_id \notin PendingIds(chat_data)
    /\ chat_data # {}

====
